---- MODULE Spec2Model ----
(***************************************************************************)
(* A model of the document store of cxio/archives (package storage/fss):   *)
(* DocumentStore over FileSystem.  Go strings are sequences of             *)
(* one-character strings, a path is a sequence of segments, the disk is a  *)
(* map from absolute segment lists to file contents plus a set of          *)
(* directories.                                                            *)
(***************************************************************************)
EXTENDS Integers, Sequences, FiniteSets, TLC

VARIABLES
    rootDir,        \* FileSystem.rootDir, as given to NewFileSystem
    files,          \* the disk: path -> content of every regular file
    dirs,           \* the disk: every directory
    cache,          \* DocumentStore.cache: docID -> year
    lookbackYears,  \* DocumentStore.lookbackYears
    existbackYears, \* DocumentStore.existbackYears
    now,            \* the calendar year time.Now() reports
    ret,            \* the last call: operation, arguments and what it returned
    nops,           \* number of calls so far that changed the disk or the instance
    inflight,       \* the Store calls running on goroutines, each with its position
    drivers,        \* store.drivers, the registry: name -> driver
    subs            \* a parsed path template (docSubs or resSubs) and its tmp slice

vars == <<rootDir, files, dirs, cache, lookbackYears, existbackYears, now, ret, nops,
         inflight, drivers, subs>>

----------------------------------------------------------------------------
(* Bounds of the model.                                                    *)

\* calls that change the disk, the clock or the store instance, per behaviour
MaxOps == 2
\* largest search depth handed to SetLookbackYears / SetExistbackYears
MaxDepth == 2
\* how many years before the base year a caller may name explicitly
MaxBack == 1
\* the calendar year at start
BaseYear == 2026

----------------------------------------------------------------------------
(* Strings.                                                                *)

Uppers == <<"A","B","C","D","E","F","G","H","I","J","K","L","M",
            "N","O","P","Q","R","S","T","U","V","W","X","Y","Z">>
Lowers == <<"a","b","c","d","e","f","g","h","i","j","k","l","m",
            "n","o","p","q","r","s","t","u","v","w","x","y","z">>
DigitChars == <<"0","1","2","3","4","5","6","7","8","9">>
HexChars == <<"0","1","2","3","4","5","6","7","8","9","a","b","c","d","e","f">>

\* position of character c in table t, 0 when absent
IndexOf(t, c) ==
    IF \E i \in 1..Len(t) : t[i] = c
    THEN CHOOSE i \in 1..Len(t) : t[i] = c
    ELSE 0

\* the case mapping of the ASCII letters, as tables
Letters  == {Uppers[i] : i \in 1..Len(Uppers)} \cup {Lowers[i] : i \in 1..Len(Lowers)}
LowerTab == [c \in Letters |-> IF IndexOf(Uppers, c) > 0 THEN Lowers[IndexOf(Uppers, c)] ELSE c]
UpperTab == [c \in Letters |-> IF IndexOf(Lowers, c) > 0 THEN Uppers[IndexOf(Lowers, c)] ELSE c]

LowerCh(c) == IF c \in Letters THEN LowerTab[c] ELSE c
UpperCh(c) == IF c \in Letters THEN UpperTab[c] ELSE c

\* strings.ToLower / strings.ToUpper
ToLower(s) == [i \in 1..Len(s) |-> LowerCh(s[i])]
ToUpper(s) == [i \in 1..Len(s) |-> UpperCh(s[i])]

\* strings.ReplaceAll(s, "-", "_")
ReplaceHyphen(s) == [i \in 1..Len(s) |-> IF s[i] = "-" THEN "_" ELSE s[i]]

\* strings.Index(s, sub): 0-based offset of the first occurrence, -1 when none
StrIndex(s, sub) ==
    LET hits == {i \in 0..(Len(s) - Len(sub)) : SubSeq(s, i + 1, i + Len(sub)) = sub}
    IN IF hits = {} THEN -1 ELSE CHOOSE i \in hits : \A j \in hits : i <= j

IsDigits(s) == Len(s) > 0 /\ \A i \in 1..Len(s) : IndexOf(DigitChars, s[i]) > 0

RECURSIVE DecVal(_)
DecVal(s) ==
    IF s = <<>> THEN 0
    ELSE 10 * DecVal(SubSeq(s, 1, Len(s) - 1)) + (IndexOf(DigitChars, s[Len(s)]) - 1)

\* strconv.Atoi: an optional sign, then decimal digits only
Atoi(s) ==
    IF s # <<>> /\ s[1] \in {"+", "-"}
    THEN IF IsDigits(Tail(s))
         THEN [ok |-> TRUE, val |-> IF s[1] = "-" THEN 0 - DecVal(Tail(s)) ELSE DecVal(Tail(s))]
         ELSE [ok |-> FALSE, val |-> 0]
    ELSE IF IsDigits(s) THEN [ok |-> TRUE, val |-> DecVal(s)]
         ELSE [ok |-> FALSE, val |-> 0]

RECURSIVE NatDigits(_)
NatDigits(n) ==
    IF n < 10 THEN <<DigitChars[n + 1]>>
    ELSE NatDigits(n \div 10) \o <<DigitChars[(n % 10) + 1]>>

\* strconv.Itoa
Itoa(n) == IF n < 0 THEN <<"-">> \o NatDigits(0 - n) ELSE NatDigits(n)

\* fmt.Sprintf("%03d", n): the sign, then the digits padded with zeros to width 3
Sprintf03d(n) ==
    LET d == NatDigits(IF n < 0 THEN 0 - n ELSE n)
        w == IF n < 0 THEN 2 ELSE 3
        pad == [i \in 1..(IF Len(d) < w THEN w - Len(d) ELSE 0) |-> "0"]
    IN (IF n < 0 THEN <<"-">> ELSE <<>>) \o pad \o d

IsHexDigits(s) ==
    Len(s) > 0 /\ \A i \in 1..Len(s) : IndexOf(HexChars, LowerCh(s[i])) > 0

RECURSIVE HexVal(_)
HexVal(s) ==
    IF s = <<>> THEN 0
    ELSE 16 * HexVal(SubSeq(s, 1, Len(s) - 1))
         + (IndexOf(HexChars, LowerCh(s[Len(s)])) - 1)

\* strconv.ParseInt(s, 16, 0) with the error dropped: an optional sign, then hex
\* digits of either case; 0 for anything else
ParseHex(s) ==
    IF s # <<>> /\ s[1] \in {"+", "-"}
    THEN IF IsHexDigits(Tail(s))
         THEN (IF s[1] = "-" THEN 0 - HexVal(Tail(s)) ELSE HexVal(Tail(s)))
         ELSE 0
    ELSE IF IsHexDigits(s) THEN HexVal(s) ELSE 0

\* the language tag: "" stays "", else lower case with '-' turned into '_'
normalizeLang(lang) ==
    IF lang = <<>> THEN <<>> ELSE ToLower(ReplaceHyphen(lang))

----------------------------------------------------------------------------
(* Paths.  filepath.Join concatenates and cleans: "." and empty elements   *)
(* disappear.                                                              *)

Dot == <<".">>

Clean(p) == SelectSeq(p, LAMBDA seg : seg # Dot /\ seg # <<>>)

Join(a, b) == Clean(a \o b)

\* filepath.Dir
Dir(p) == IF p = <<>> THEN <<>> ELSE SubSeq(p, 1, Len(p) - 1)

Prefixes(p) == {SubSeq(p, 1, k) : k \in 0..Len(p)}

IsPrefix(a, b) == Len(a) <= Len(b) /\ SubSeq(b, 1, Len(a)) = a

----------------------------------------------------------------------------
(* FileSystem (fs.go).  A disk value d is [files, dirs]; every operation   *)
(* takes the root and the disk and returns the new disk and the error.     *)

NoErr       == "nil"
ErrNotFound == "not found"
ErrExists   == "document already exists"
ErrYear     == "invalid year"
ErrIO       == "io"
ErrDecode   == "unmarshal"

\* FileSystem.filePath
filePath(root, path) == Join(root, path)

\* os.Stat(p) fails with a not-exist error: nothing is at p and every proper
\* prefix of p is a directory or absent (a regular file on the way gives ENOTDIR)
StatNotExist(d, p) ==
    /\ p \notin DOMAIN d.files
    /\ p \notin d.dirs
    /\ \A q \in Prefixes(p) : q \notin DOMAIN d.files

\* FileSystem.Exists
fsExists(root, d, path) == ~StatNotExist(d, filePath(root, path))

\* os.MkdirAll(dir)
MkdirAll(d, dir) == [d EXCEPT !.dirs = @ \cup Prefixes(dir)]

\* FileSystem.Write
fsWrite(root, d, path, data) ==
    LET p  == filePath(root, path)
        d1 == MkdirAll(d, Dir(p))
    IN [disk |-> [d1 EXCEPT !.files =
                     [q \in (DOMAIN d1.files) \cup {p} |->
                         IF q = p THEN data ELSE d1.files[q]]],
        err  |-> NoErr]

\* FileSystem.Read: the path is joined to the root, and Exists joins it again
fsRead(root, d, path) ==
    LET p == filePath(root, path)
    IN IF ~fsExists(root, d, p) THEN [data |-> <<>>, err |-> ErrNotFound]
       ELSE IF p \in DOMAIN d.files THEN [data |-> d.files[p], err |-> NoErr]
       ELSE [data |-> <<>>, err |-> ErrIO]

\* os.Remove(p): a file, or an empty directory
osRemove(d, p) ==
    IF p \in DOMAIN d.files
    THEN [disk |-> [d EXCEPT !.files = [q \in (DOMAIN d.files) \ {p} |-> d.files[q]]],
          err  |-> NoErr]
    ELSE IF /\ p \in d.dirs
            /\ \A q \in (DOMAIN d.files) \cup d.dirs : q = p \/ ~IsPrefix(p, q)
    THEN [disk |-> [d EXCEPT !.dirs = @ \ {p}], err |-> NoErr]
    ELSE [disk |-> d, err |-> ErrIO]

\* FileSystem.Remove
fsRemove(root, d, path) ==
    LET p == filePath(root, path)
    IN IF ~fsExists(root, d, p) THEN [disk |-> d, err |-> ErrNotFound]
       ELSE osRemove(d, p)

\* FileSystem.List: the names of the entries of the directory that are not directories
fsList(root, d, dirPath) ==
    LET p == filePath(root, dirPath)
    IN IF ~fsExists(root, d, p) THEN [names |-> {}, err |-> ErrNotFound]
       ELSE IF p \notin d.dirs THEN [names |-> {}, err |-> ErrIO]
       ELSE [names |-> {q[Len(q)] : q \in {f \in DOMAIN d.files : Dir(f) = p}},
             err   |-> NoErr]

----------------------------------------------------------------------------
(* DocumentMeta (document.go, docdef.go).  A file's content is a sequence  *)
(* of tokens: a payload is its bytes, a metadata file is the JSON text     *)
(* json.MarshalIndent writes, token by token.                              *)

\* the zero DocumentMeta
ZeroMeta ==
    [type |-> "", title |-> "", summary |-> "", uploader |-> "",
     upload_time |-> 0, size |-> 0,
     language |-> "", author |-> "", copyright |-> "", create_time |-> ""]

StrKeys == {"type", "title", "summary", "uploader",
            "language", "author", "copyright", "create_time"}
IntKeys == {"upload_time", "size"}

\* the fields in struct order; the last four carry omitempty
FieldOrder == <<"type", "title", "summary", "uploader", "upload_time", "size",
                "language", "author", "copyright", "create_time">>
OmitEmpty == {"language", "author", "copyright", "create_time"}

\* one "key": value member
EncField(m, k) ==
    IF k \in IntKeys THEN <<k, ":">> \o Itoa(m[k])
    ELSE <<k, ":", "\"", m[k], "\"">>

RECURSIVE EncMembers(_, _, _)
EncMembers(m, i, first) ==
    IF i > Len(FieldOrder) THEN <<>>
    ELSE LET k == FieldOrder[i]
         IN IF k \in OmitEmpty /\ m[k] = ""
            THEN EncMembers(m, i + 1, first)
            ELSE (IF first THEN <<>> ELSE <<",">>) \o EncField(m, k)
                 \o EncMembers(m, i + 1, FALSE)

\* DocumentMeta.Marshal
Marshal(m) == <<"{">> \o EncMembers(m, 1, TRUE) \o <<"}">>

\* the digits of a number value starting at token i
RECURSIVE NumberEnd(_, _)
NumberEnd(t, i) ==
    IF i <= Len(t) /\ (IndexOf(DigitChars, t[i]) > 0 \/ t[i] = "-")
    THEN NumberEnd(t, i + 1) ELSE i

\* the members of the object from token i on, decoded into m by field type
RECURSIVE DecMembers(_, _, _)
DecMembers(t, i, m) ==
    IF i > Len(t) THEN [ok |-> FALSE, meta |-> m]
    ELSE IF t[i] = "}" THEN [ok |-> i = Len(t), meta |-> m]
    ELSE IF t[i] = "," THEN DecMembers(t, i + 1, m)
    ELSE IF i + 2 > Len(t) \/ t[i + 1] # ":" THEN [ok |-> FALSE, meta |-> m]
    ELSE IF t[i + 2] = "\""
         THEN IF i + 4 > Len(t) \/ t[i + 4] # "\"" \/ t[i] \in IntKeys
              THEN [ok |-> FALSE, meta |-> m]
              ELSE DecMembers(t, i + 5,
                      IF t[i] \in StrKeys THEN [m EXCEPT ![t[i]] = t[i + 3]] ELSE m)
         ELSE LET e == NumberEnd(t, i + 2)
                  n == Atoi(SubSeq(t, i + 2, e - 1))
              IN IF ~n.ok \/ t[i] \in StrKeys THEN [ok |-> FALSE, meta |-> m]
                 ELSE DecMembers(t, e,
                         IF t[i] \in IntKeys THEN [m EXCEPT ![t[i]] = n.val] ELSE m)

\* DocumentMeta.Unmarshal into a zero DocumentMeta
Unmarshal(t) ==
    IF t = <<>> \/ t[1] # "{" THEN [ok |-> FALSE, meta |-> ZeroMeta]
    ELSE DecMembers(t, 2, ZeroMeta)

----------------------------------------------------------------------------
(* DocumentStore (document.go).                                            *)

DataExt == <<".", "d", "a", "t", "a">>
MetaExt == <<".", "m", "e", "t", "a">>

\* A path layout that folds the case of the id, so that ids differing only in
\* case share their files.
calculatePathsFolded(year, docID) ==
    LET id    == ToLower(docID)
        long  == Len(id) >= 6
        byte1 == IF long THEN <<"0", "x">> \o SubSeq(id, 1, 2)
                 ELSE <<"0", "x", "f", "f", "_", "_">>
        byte2 == IF long THEN ToUpper(SubSeq(id, 3, 4))
                 ELSE <<"F", "F", "_", "_">>
        byte3 == IF long THEN Sprintf03d(ParseHex(SubSeq(id, 5, 6)))
                 ELSE <<"2", "5", "5", "_", "_">>
        dirPath == Join(<<year, byte1, byte2, byte3>>, <<id>>)
        fname == IF Len(id) > 16 THEN SubSeq(id, 1, 16) ELSE id
    IN [DirPath  |-> dirPath,
        DataPath |-> Join(dirPath, <<fname \o DataExt>>),
        MetaPath |-> Join(dirPath, <<fname \o MetaExt>>)]

\* DocumentStore.calculatePaths
calculatePaths(year, docID) ==
    LET long  == Len(docID) >= 6
        byte1 == IF long THEN <<"0", "x">> \o SubSeq(docID, 1, 2)
                 ELSE <<"0", "x", "f", "f", "_", "_">>
        byte2 == IF long THEN ToUpper(SubSeq(docID, 3, 4))
                 ELSE <<"F", "F", "_", "_">>
        byte3 == IF long THEN Sprintf03d(ParseHex(SubSeq(docID, 5, 6)))
                 ELSE <<"2", "5", "5", "_", "_">>
        dirPath == Join(<<year, byte1, byte2, byte3>>, <<docID>>)
        fname == IF Len(docID) > 16 THEN SubSeq(docID, 1, 16) ELSE docID
    IN [DirPath  |-> dirPath,
        DataPath |-> Join(dirPath, <<fname \o DataExt>>),
        MetaPath |-> Join(dirPath, <<fname \o MetaExt>>)]

\* path + "." + lang on the last segment
WithLang(path, lang) ==
    [path EXCEPT ![Len(path)] = @ \o <<".">> \o lang]
\* byte order of the characters that occur in file names
CharOrder == <<"-", ".">> \o DigitChars \o Uppers \o <<"_">> \o Lowers

RECURSIVE StrLess(_, _)
StrLess(a, b) ==
    IF a = <<>> THEN b # <<>>
    ELSE IF b = <<>> THEN FALSE
    ELSE IF a[1] = b[1] THEN StrLess(Tail(a), Tail(b))
    ELSE IndexOf(CharOrder, a[1]) < IndexOf(CharOrder, b[1])

\* the names of a directory listing in the order os.ReadDir returns them
RECURSIVE SortNames(_)
SortNames(names) ==
    IF names = {} THEN <<>>
    ELSE LET lo == CHOOSE n \in names : \A o \in names : o = n \/ StrLess(n, o)
         IN <<lo>> \o SortNames(names \ {lo})

\* DocumentStore.Store
\* A Store that writes the files and records no cache entry.
StoreUncached(root, d, c, nowY, year, docID, data, meta) ==
    LET y     == IF year = <<>> THEN nowY ELSE year
        paths == calculatePaths(y, docID)
        w1    == fsWrite(root, d, paths.DataPath, data)
        w2    == fsWrite(root, w1.disk, paths.MetaPath, Marshal(meta))
    IN IF docID \in DOMAIN c \/ fsExists(root, d, paths.DataPath)
       THEN [disk |-> d, cache |-> c, year |-> <<>>, err |-> ErrExists]
       ELSE [disk |-> w2.disk, cache |-> c, year |-> y, err |-> NoErr]

\* A Store that skips the cache test and goes by the data path alone.
StoreByPathOnly(root, d, c, nowY, year, docID, data, meta) ==
    LET y     == IF year = <<>> THEN nowY ELSE year
        paths == calculatePaths(y, docID)
        w1    == fsWrite(root, d, paths.DataPath, data)
        w2    == fsWrite(root, w1.disk, paths.MetaPath, Marshal(meta))
    IN IF fsExists(root, d, paths.DataPath)
       THEN [disk |-> d, cache |-> c, year |-> <<>>, err |-> ErrExists]
       ELSE [disk  |-> w2.disk,
             cache |-> [k \in (DOMAIN c) \cup {docID} |->
                           IF k = docID THEN y ELSE c[k]],
             year  |-> y,
             err   |-> NoErr]

StoreOp(root, d, c, nowY, year, docID, data, meta) ==
    IF docID \in DOMAIN c
    THEN [disk |-> d, cache |-> c, year |-> <<>>, err |-> ErrExists]
    ELSE LET y     == IF year = <<>> THEN nowY ELSE year
             paths == calculatePaths(y, docID)
             w1    == fsWrite(root, d, paths.DataPath, data)
             w2    == fsWrite(root, w1.disk, paths.MetaPath, Marshal(meta))
         IN IF fsExists(root, d, paths.DataPath)
            THEN [disk |-> d, cache |-> c, year |-> <<>>, err |-> ErrExists]
            ELSE IF w1.err # NoErr
            THEN [disk |-> w1.disk, cache |-> c, year |-> <<>>, err |-> ErrIO]
            ELSE IF w2.err # NoErr
            THEN [disk |-> w2.disk, cache |-> c, year |-> <<>>, err |-> ErrIO]
            ELSE [disk  |-> w2.disk,
                  cache |-> [k \in (DOMAIN c) \cup {docID} |->
                                IF k = docID THEN y ELSE c[k]],
                  year  |-> y,
                  err   |-> NoErr]

\* DocumentStore.Store when the operating system fails the write of the
\* metadata file: os.WriteFile creates or truncates the file and then writes,
\* so a failed write leaves no file, an empty file or a file cut short.
WriteFileFailed(root, d, path, data) ==
    {d} \cup
    {[d EXCEPT !.files = [f \in (DOMAIN d.files) \cup {filePath(root, path)} |->
                             IF f = filePath(root, path) THEN SubSeq(data, 1, n)
                             ELSE d.files[f]]] : n \in {0, Len(data) \div 2}}

StoreMetaWriteFailsOp(root, d, c, nowY, year, docID, data, meta) ==
    LET y     == IF year = <<>> THEN nowY ELSE year
        paths == calculatePaths(y, docID)
        w1    == fsWrite(root, d, paths.DataPath, data)
    IN IF docID \in DOMAIN c \/ fsExists(root, d, paths.DataPath) \/ w1.err # NoErr
       THEN {}
       ELSE {[disk |-> d2, cache |-> c, year |-> <<>>, err |-> ErrIO] :
                d2 \in WriteFileFailed(root, w1.disk, paths.MetaPath, Marshal(meta))}

\* A StoreMeta that writes the metadata file without looking for the data file.
StoreMetaUnchecked(root, d, nowY, year, docID, meta, lang) ==
    LET y     == IF year = <<>> THEN nowY ELSE year
        paths == calculatePaths(y, docID)
        nl    == normalizeLang(lang)
        langMetaPath == IF nl # <<>> THEN WithLang(paths.MetaPath, nl)
                        ELSE paths.MetaPath
        w     == fsWrite(root, d, langMetaPath, Marshal(meta))
    IN IF w.err # NoErr
       THEN [disk |-> w.disk, year |-> <<>>, err |-> ErrIO]
       ELSE [disk |-> w.disk, year |-> y, err |-> NoErr]

\* DocumentStore.StoreMeta
StoreMetaOp(root, d, nowY, year, docID, meta, lang) ==
    LET y     == IF year = <<>> THEN nowY ELSE year
        paths == calculatePaths(y, docID)
        nl    == normalizeLang(lang)
        langMetaPath == IF nl # <<>> THEN WithLang(paths.MetaPath, nl)
                        ELSE paths.MetaPath
        w     == fsWrite(root, d, langMetaPath, Marshal(meta))
    IN IF ~fsExists(root, d, paths.DataPath)
       THEN [disk |-> d, year |-> <<>>, err |-> ErrNotFound]
       ELSE IF w.err # NoErr
       THEN [disk |-> w.disk, year |-> <<>>, err |-> ErrIO]
       ELSE [disk |-> w.disk, year |-> y, err |-> NoErr]

\* DocumentStore.Exists
ExistsOp(root, d, c, year, docID) ==
    LET id == ToLower(docID)
    IN IF id \in DOMAIN c THEN TRUE
       ELSE fsExists(root, d, calculatePaths(year, id).DataPath)

\* A year walk that steps forward from the start year.
RECURSIVE walkYearsForward(_, _, _, _, _, _, _)
walkYearsForward(root, d, docID, start, maxYears, i, currentYear) ==
    IF i > maxYears THEN [year |-> <<>>, err |-> ErrNotFound, probes |-> i - 1]
    ELSE IF fsExists(root, d, calculatePaths(currentYear, docID).DataPath)
    THEN [year |-> currentYear, err |-> NoErr, probes |-> i]
    ELSE walkYearsForward(root, d, docID, start, maxYears, i + 1, Itoa(start + i))

\* the loop of findDocumentYear from its i-th round on; probes counts the
\* calls of fs.Exists the loop has made
RECURSIVE walkYears(_, _, _, _, _, _, _)
walkYears(root, d, docID, start, maxYears, i, currentYear) ==
    IF i > maxYears THEN [year |-> <<>>, err |-> ErrNotFound, probes |-> i - 1]
    ELSE IF fsExists(root, d, calculatePaths(currentYear, docID).DataPath)
    THEN [year |-> currentYear, err |-> NoErr, probes |-> i]
    ELSE walkYears(root, d, docID, start, maxYears, i + 1, Itoa(start - i))

\* A year walk that examines one year more than maxYears.
findDocumentYearDeep(root, d, nowY, year, docID, maxYears) ==
    LET currentYear == IF year # <<>> THEN year ELSE nowY
        start       == Atoi(currentYear)
    IN IF ~start.ok THEN [year |-> <<>>, err |-> ErrYear, probes |-> 0]
       ELSE walkYears(root, d, docID, start.val, maxYears + 1, 1, currentYear)

\* A year walk that starts at the current year when the year does not parse.
findDocumentYearUnparsed(root, d, nowY, year, docID, maxYears) ==
    LET currentYear == IF year # <<>> /\ Atoi(year).ok THEN year ELSE nowY
        start       == Atoi(currentYear)
    IN walkYears(root, d, docID, start.val, maxYears, 1, currentYear)

\* DocumentStore.findDocumentYear
findDocumentYear(root, d, nowY, year, docID, maxYears) ==
    LET currentYear == IF year # <<>> THEN year ELSE nowY
        start       == Atoi(currentYear)
    IN IF ~start.ok THEN [year |-> <<>>, err |-> ErrYear, probes |-> 0]
       ELSE walkYears(root, d, docID, start.val, maxYears, 1, currentYear)

\* DocumentStore.ExistsFromYear
ExistsFromYearOp(root, d, c, nowY, existback, year, docID) ==
    LET id == ToLower(docID)
        f  == findDocumentYear(root, d, nowY, year, id, existback)
    IN IF id \in DOMAIN c THEN [year |-> c[id], found |-> TRUE, probes |-> 0]
       ELSE IF f.err # NoErr THEN [year |-> <<>>, found |-> FALSE, probes |-> f.probes]
       ELSE [year |-> f.year, found |-> TRUE, probes |-> f.probes]

\* DocumentStore.getDocumentData
getDocumentData(root, d, year, docID) ==
    fsRead(root, d, calculatePaths(year, docID).DataPath)

\* DocumentStore.getMetaWithYear
getMetaWithYear(root, d, year, docID, lang) ==
    LET paths == calculatePaths(year, docID)
        langMetaPath == WithLang(paths.MetaPath, lang)
        metaPath == IF lang # <<>> /\ fsExists(root, d, langMetaPath)
                    THEN langMetaPath ELSE paths.MetaPath
        r == fsRead(root, d, metaPath)
        u == Unmarshal(r.data)
    IN IF r.err # NoErr THEN [meta |-> ZeroMeta, isNil |-> TRUE, err |-> r.err]
       ELSE IF ~u.ok THEN [meta |-> ZeroMeta, isNil |-> TRUE, err |-> ErrDecode]
       ELSE [meta |-> u.meta, isNil |-> FALSE, err |-> NoErr]

\* the data and metadata of (year, docID): the common tail of Get and GetFromYear
readDocument(root, d, year, docID, lang) ==
    LET dat == getDocumentData(root, d, year, docID)
        mt  == getMetaWithYear(root, d, year, docID, lang)
    IN IF dat.err # NoErr
       THEN [data |-> <<>>, meta |-> ZeroMeta, isNil |-> TRUE, err |-> dat.err]
       ELSE IF mt.err # NoErr
       THEN [data |-> dat.data, meta |-> ZeroMeta, isNil |-> TRUE, err |-> mt.err]
       ELSE [data |-> dat.data, meta |-> mt.meta, isNil |-> FALSE, err |-> NoErr]

\* A Get that falls back to the year before when the given year has no data.
GetOpFallback(root, d, year, docID, lang) ==
    LET id   == ToLower(docID)
        prev == IF Atoi(year).ok THEN Itoa(Atoi(year).val - 1) ELSE year
    IN IF fsExists(root, d, calculatePaths(year, id).DataPath)
       THEN readDocument(root, d, year, id, lang)
       ELSE readDocument(root, d, prev, id, lang)

\* DocumentStore.Get
GetOp(root, d, year, docID, lang) ==
    readDocument(root, d, year, ToLower(docID), lang)

\* the year GetFromYear and GetMetaFromYear work on: the cached one, else the walk's
resolveYear(root, d, c, nowY, lookback, year, id) ==
    IF id \in DOMAIN c THEN [year |-> c[id], err |-> NoErr, probes |-> 0]
    ELSE findDocumentYear(root, d, nowY, year, id, lookback)

\* DocumentStore.GetFromYear
GetFromYearOp(root, d, c, nowY, lookback, year, docID, lang) ==
    LET id == ToLower(docID)
        y  == resolveYear(root, d, c, nowY, lookback, year, id)
        r  == readDocument(root, d, y.year, id, lang)
    IN IF y.err # NoErr
       THEN [data |-> <<>>, meta |-> ZeroMeta, isNil |-> TRUE, year |-> <<>>, err |-> y.err,
             probes |-> y.probes]
       ELSE [data |-> r.data, meta |-> r.meta, isNil |-> r.isNil, year |-> y.year,
             err |-> r.err, probes |-> y.probes]

\* DocumentStore.GetMeta
GetMetaOp(root, d, year, docID, lang) ==
    getMetaWithYear(root, d, year, ToLower(docID), lang)

\* DocumentStore.GetMetaFromYear
GetMetaFromYearOp(root, d, c, nowY, lookback, year, docID, lang) ==
    LET id == ToLower(docID)
        y  == resolveYear(root, d, c, nowY, lookback, year, id)
        m  == getMetaWithYear(root, d, y.year, id, normalizeLang(lang))
    IN IF y.err # NoErr
       THEN [meta |-> ZeroMeta, isNil |-> TRUE, year |-> <<>>, err |-> y.err,
             probes |-> y.probes]
       ELSE [meta |-> m.meta, isNil |-> m.isNil, year |-> y.year, err |-> m.err,
             probes |-> y.probes]

\* the loop of deleteMetaAll over the listing, stopping at the first failure
RECURSIVE removeMetaFiles(_, _, _, _)
removeMetaFiles(root, d, dirPath, names) ==
    IF names = <<>> THEN [disk |-> d, err |-> NoErr]
    ELSE IF StrIndex(Head(names), MetaExt) > 0
    THEN LET r == fsRemove(root, d, Join(dirPath, <<Head(names)>>))
         IN IF r.err # NoErr THEN r
            ELSE removeMetaFiles(root, r.disk, dirPath, Tail(names))
    ELSE removeMetaFiles(root, d, dirPath, Tail(names))

\* DocumentStore.deleteMetaAll
deleteMetaAll(root, d, dirPath) ==
    LET l == fsList(root, d, dirPath)
    IN IF l.err # NoErr THEN [disk |-> d, err |-> l.err]
       ELSE removeMetaFiles(root, d, dirPath, SortNames(l.names))

\* DocumentStore.Delete: the result of deleteMetaAll is dropped
DeleteOp(root, d, year, docID) ==
    LET paths == calculatePaths(year, docID)
        r1 == fsRemove(root, d, paths.DataPath)
        r2 == deleteMetaAll(root, r1.disk, paths.DirPath)
        r3 == fsRemove(root, r2.disk, paths.DirPath)
    IN IF r1.err # NoErr THEN [disk |-> d, err |-> r1.err]
       ELSE [disk |-> r3.disk, err |-> r3.err]

\* A DeleteMeta that removes the default metadata file whatever the tag.
DeleteMetaDefault(root, d, year, docID, lang) ==
    fsRemove(root, d, calculatePaths(year, docID).MetaPath)

\* DocumentStore.DeleteMeta
DeleteMetaOp(root, d, year, docID, lang) ==
    LET paths == calculatePaths(year, docID)
        nl    == normalizeLang(lang)
    IN fsRemove(root, d, IF nl # <<>> THEN WithLang(paths.MetaPath, nl)
                         ELSE paths.MetaPath)

\* the bounds check shared by SetLookbackYears and SetExistbackYears
MaxYears == 1000
\* A range test that clamps a rejected depth to the nearest accepted one.
acceptYearsClamped(old, years) ==
    IF years <= 0 THEN 1 ELSE IF years > MaxYears THEN MaxYears ELSE years

acceptYears(old, years) == IF years <= 0 \/ years > MaxYears THEN old ELSE years
----------------------------------------------------------------------------
(* Inputs.                                                                 *)

idL == <<"a", "b", "c", "d", "e", "f">>
idU == <<"A", "B", "c", "d", "e", "f">>
IDs == {idL, idU}

\* the years a caller names explicitly, and the empty year
Years    == {Itoa(BaseYear - k) : k \in 0..MaxBack}
BadYear  == <<"2", "0", "x", "6">>
YearArgs == Years \cup {<<>>}

\* a payload and the metadata uploaded with it (size = length of the payload)
P1 == <<"h", "i">>
P2 == <<"y", "o", "u">>
MetaA == [ZeroMeta EXCEPT !.type = "text/plain", !.title = "a", !.size = 2]
MetaB == [ZeroMeta EXCEPT !.type = "text/plain", !.title = "b", !.size = 3,
                          !.language = "en"]
Metas == {MetaA, MetaB}
Docs == {[data |-> P1, meta |-> MetaA], [data |-> P2, meta |-> MetaB]}

LangRaw  == <<"e", "n", "-", "U", "S">>
LangNorm == <<"e", "n", "_", "u", "s">>
Langs == {<<>>, LangRaw, LangNorm}

\* "." and the default of the configuration, "./data"
Roots == {<<Dot>>, <<Dot, <<"d", "a", "t", "a">>>>}

Depths == (0..MaxDepth) \cup {MaxYears + 1}

----------------------------------------------------------------------------
(* The state machine.                                                      *)

disk == [files |-> files, dirs |-> dirs]

EmptyMap == [k \in {} |-> <<>>]

\* os.MkdirAll(rootDir) of NewFileSystem on an empty disk
EmptyDisk(root) == [files |-> EmptyMap, dirs |-> Prefixes(Clean(root))]

\* what an earlier instance of the store may have left under the root: nothing,
\* or one document it stored up to MaxDepth years before the base year
PriorDisks(root) ==
    {EmptyDisk(root)} \cup
    {StoreOp(root, EmptyDisk(root), EmptyMap, Itoa(BaseYear),
             Itoa(BaseYear - k), idL, P1, MetaA).disk : k \in 0..MaxDepth}

\* No Store call is running.
NoCalls == <<>>

\* the registry as make(map[string]Driver) leaves it
NoDrivers == <<>>

\* no template parsed
NoSubs == [kind |-> "none", fns |-> <<>>, tmp |-> <<>>]

\* what a call leaves in ret; the fields a call does not use keep these values.
\* changed: the call changed the disk, the cache, a depth or the clock
\* probes: the existence probes the year walk of the call made
NoRet ==
    [op |-> "", year |-> <<>>, id |-> <<>>, lang |-> <<>>, data |-> <<>>,
     meta |-> ZeroMeta, n |-> 0, changed |-> FALSE,
     err |-> NoErr, ryear |-> <<>>, found |-> FALSE,
     rdata |-> <<>>, rmeta |-> ZeroMeta, rnil |-> TRUE, probes |-> 0,
     paths |-> [DirPath |-> <<>>, DataPath |-> <<>>, MetaPath |-> <<>>]]

\* NewDocumentStore(rootPath)
Init ==
    /\ rootDir \in Roots
    /\ \E d \in PriorDisks(rootDir) : files = d.files /\ dirs = d.dirs
    /\ cache = EmptyMap
    /\ lookbackYears = 0
    /\ existbackYears = 0
    /\ now = Itoa(BaseYear)
    /\ ret = [NoRet EXCEPT !.op = "NewDocumentStore", !.changed = TRUE]
    /\ nops = 0
    /\ inflight = NoCalls
    /\ drivers = NoDrivers
    /\ subs = NoSubs

\* a call that changed something counts against MaxOps
Count(chg) ==
    /\ nops' = IF chg THEN nops + 1 ELSE nops
    /\ nops' <= MaxOps

\* behaviours are continued only from a call that changed something (see Next)
Continue == ret.changed

\* NewDocumentStore(rootPath) again, on the disk as it is: a fresh instance
Reopen ==
    /\ Continue
    /\ Count(TRUE)
    /\ dirs' = dirs \cup Prefixes(Clean(rootDir))
    /\ cache' = EmptyMap
    /\ lookbackYears' = 0
    /\ existbackYears' = 0
    /\ ret' = [NoRet EXCEPT !.op = "NewDocumentStore", !.changed = TRUE]
    /\ UNCHANGED <<subs, drivers, inflight, rootDir, files, now>>

\* the calendar year advances
Tick ==
    /\ Continue
    /\ Count(TRUE)
    /\ now' = Itoa(Atoi(now).val + 1)
    /\ ret' = [NoRet EXCEPT !.op = "Tick", !.changed = TRUE]
    /\ UNCHANGED <<subs, drivers, inflight, rootDir, files, dirs, cache, lookbackYears, existbackYears>>

SetLookbackYears(years) ==
    /\ Continue
    /\ lookbackYears' = acceptYears(lookbackYears, years)
    /\ Count(lookbackYears' # lookbackYears)
    /\ ret' = [NoRet EXCEPT !.op = "SetLookbackYears", !.n = years,
                            !.changed = (lookbackYears' # lookbackYears)]
    /\ UNCHANGED <<subs, drivers, inflight, rootDir, files, dirs, cache, existbackYears, now>>

SetExistbackYears(years) ==
    /\ Continue
    /\ existbackYears' = acceptYears(existbackYears, years)
    /\ Count(existbackYears' # existbackYears)
    /\ ret' = [NoRet EXCEPT !.op = "SetExistbackYears", !.n = years,
                            !.changed = (existbackYears' # existbackYears)]
    /\ UNCHANGED <<subs, drivers, inflight, rootDir, files, dirs, cache, lookbackYears, now>>

Store(year, docID, data, meta) ==
    /\ Continue
    /\ \E r \in {StoreOp(rootDir, disk, cache, now, year, docID, data, meta)} :
           /\ Count(r.disk # disk \/ r.cache # cache)
           /\ files' = r.disk.files
           /\ dirs' = r.disk.dirs
           /\ cache' = r.cache
           /\ ret' = [NoRet EXCEPT !.op = "Store", !.year = year, !.id = docID,
                                   !.data = data, !.meta = meta,
                                   !.changed = (r.disk # disk \/ r.cache # cache),
                                   !.err = r.err, !.ryear = r.year]
           /\ UNCHANGED <<subs, drivers, inflight, rootDir, lookbackYears, existbackYears, now>>

StoreMetaWriteFails(year, docID, data, meta) ==
    /\ Continue
    /\ \E r \in StoreMetaWriteFailsOp(rootDir, disk, cache, now, year, docID, data, meta) :
           /\ Count(TRUE)
           /\ files' = r.disk.files
           /\ dirs' = r.disk.dirs
           /\ cache' = r.cache
           /\ ret' = [NoRet EXCEPT !.op = "Store", !.year = year, !.id = docID,
                                   !.data = data, !.meta = meta, !.changed = TRUE,
                                   !.err = r.err, !.ryear = r.year]
           /\ UNCHANGED <<subs, drivers, inflight, rootDir, lookbackYears, existbackYears, now>>

StoreMeta(year, docID, meta, lang) ==
    /\ Continue
    /\ \E r \in {StoreMetaOp(rootDir, disk, now, year, docID, meta, lang)} :
           /\ Count(r.disk # disk)
           /\ files' = r.disk.files
           /\ dirs' = r.disk.dirs
           /\ ret' = [NoRet EXCEPT !.op = "StoreMeta", !.year = year, !.id = docID,
                                   !.meta = meta, !.lang = lang,
                                   !.changed = (r.disk # disk),
                                   !.err = r.err, !.ryear = r.year]
           /\ UNCHANGED <<subs, drivers, inflight, rootDir, cache, lookbackYears, existbackYears, now>>

Delete(year, docID) ==
    /\ Continue
    /\ \E r \in {DeleteOp(rootDir, disk, year, docID)} :
           /\ Count(r.disk # disk)
           /\ files' = r.disk.files
           /\ dirs' = r.disk.dirs
           /\ ret' = [NoRet EXCEPT !.op = "Delete", !.year = year, !.id = docID,
                                   !.changed = (r.disk # disk), !.err = r.err]
           /\ UNCHANGED <<subs, drivers, inflight, rootDir, cache, lookbackYears, existbackYears, now>>

DeleteMeta(year, docID, lang) ==
    /\ Continue
    /\ \E r \in {DeleteMetaOp(rootDir, disk, year, docID, lang)} :
           /\ Count(r.disk # disk)
           /\ files' = r.disk.files
           /\ dirs' = r.disk.dirs
           /\ ret' = [NoRet EXCEPT !.op = "DeleteMeta", !.year = year, !.id = docID,
                                   !.lang = lang, !.changed = (r.disk # disk),
                                   !.err = r.err]
           /\ UNCHANGED <<subs, drivers, inflight, rootDir, cache, lookbackYears, existbackYears, now>>

Exists(year, docID) ==
    /\ Continue
    /\ ret' = [NoRet EXCEPT !.op = "Exists", !.year = year, !.id = docID,
                            !.found = ExistsOp(rootDir, disk, cache, year, docID)]
    /\ UNCHANGED <<subs, drivers, inflight, rootDir, files, dirs, cache, lookbackYears, existbackYears, now, nops>>

ExistsFromYear(year, docID) ==
    /\ Continue
    /\ \E r \in {ExistsFromYearOp(rootDir, disk, cache, now, existbackYears, year, docID)} :
           /\ ret' = [NoRet EXCEPT !.op = "ExistsFromYear", !.year = year, !.id = docID,
                                   !.found = r.found, !.ryear = r.year,
                                   !.probes = r.probes]
           /\ UNCHANGED <<subs, drivers, inflight, rootDir, files, dirs, cache, lookbackYears, existbackYears, now, nops>>

Get(year, docID, lang) ==
    /\ Continue
    /\ \E r \in {GetOp(rootDir, disk, year, docID, lang)} :
           /\ ret' = [NoRet EXCEPT !.op = "Get", !.year = year, !.id = docID, !.lang = lang,
                                   !.err = r.err, !.rdata = r.data, !.rmeta = r.meta,
                                   !.rnil = r.isNil]
           /\ UNCHANGED <<subs, drivers, inflight, rootDir, files, dirs, cache, lookbackYears, existbackYears, now, nops>>

GetFromYear(year, docID, lang) ==
    /\ Continue
    /\ \E r \in {GetFromYearOp(rootDir, disk, cache, now, lookbackYears, year, docID, lang)} :
           /\ ret' = [NoRet EXCEPT !.op = "GetFromYear", !.year = year, !.id = docID,
                                   !.lang = lang, !.err = r.err, !.ryear = r.year,
                                   !.rdata = r.data, !.rmeta = r.meta, !.rnil = r.isNil,
                                   !.probes = r.probes]
           /\ UNCHANGED <<subs, drivers, inflight, rootDir, files, dirs, cache, lookbackYears, existbackYears, now, nops>>

GetMeta(year, docID, lang) ==
    /\ Continue
    /\ \E r \in {GetMetaOp(rootDir, disk, year, docID, lang)} :
           /\ ret' = [NoRet EXCEPT !.op = "GetMeta", !.year = year, !.id = docID,
                                   !.lang = lang, !.err = r.err, !.rmeta = r.meta,
                                   !.rnil = r.isNil]
           /\ UNCHANGED <<subs, drivers, inflight, rootDir, files, dirs, cache, lookbackYears, existbackYears, now, nops>>

GetMetaFromYear(year, docID, lang) ==
    /\ Continue
    /\ \E r \in {GetMetaFromYearOp(rootDir, disk, cache, now, lookbackYears, year, docID, lang)} :
           /\ ret' = [NoRet EXCEPT !.op = "GetMetaFromYear", !.year = year, !.id = docID,
                                   !.lang = lang, !.err = r.err, !.ryear = r.year,
                                   !.rmeta = r.meta, !.rnil = r.isNil,
                                   !.probes = r.probes]
           /\ UNCHANGED <<subs, drivers, inflight, rootDir, files, dirs, cache, lookbackYears, existbackYears, now, nops>>

\* One call of the store.  A call that changed nothing (a lookup, a rejected
\* call) leaves the store as it found it, so the calls that can follow it are the
\* calls that could have been made in its place: behaviours are continued only
\* from calls that changed something.
Next ==
    \/ Reopen
    \/ Tick
    \/ \E n \in Depths : SetLookbackYears(n)
    \/ \E n \in Depths : SetExistbackYears(n)
    \/ \E y \in YearArgs, id \in IDs, doc \in Docs : Store(y, id, doc.data, doc.meta)
    \/ \E y \in YearArgs, id \in IDs, m \in Metas, l \in Langs : StoreMeta(y, id, m, l)
    \/ \E y \in Years, id \in IDs : Delete(y, id)
    \/ \E y \in Years, id \in IDs, l \in Langs : DeleteMeta(y, id, l)
    \/ \E y \in Years, id \in IDs : Exists(y, id)
    \/ \E y \in YearArgs \cup {BadYear}, id \in IDs : ExistsFromYear(y, id)
    \/ \E y \in Years, id \in IDs, l \in Langs : Get(y, id, l)
    \/ \E y \in YearArgs \cup {BadYear}, id \in IDs, l \in Langs : GetFromYear(y, id, l)
    \/ \E y \in Years, id \in IDs, l \in Langs : GetMeta(y, id, l)
    \/ \E y \in YearArgs \cup {BadYear}, id \in IDs, l \in Langs : GetMetaFromYear(y, id, l)

Spec == Init /\ [][Next]_vars

----------------------------------------------------------------------------
(* The year walk on a configured store: main.go builds the store and sets  *)
(* both depths from the configuration before any request is served.        *)

InitWalk ==
    /\ rootDir \in Roots
    /\ \E d \in PriorDisks(rootDir) : files = d.files /\ dirs = d.dirs
    /\ cache = EmptyMap
    /\ \E n \in Depths : lookbackYears = acceptYears(0, n)
    /\ \E n \in Depths : existbackYears = acceptYears(0, n)
    /\ now = Itoa(BaseYear)
    /\ ret = [NoRet EXCEPT !.op = "NewDocumentStore", !.changed = TRUE]
    /\ nops = 0
    /\ inflight = NoCalls
    /\ drivers = NoDrivers
    /\ subs = NoSubs

NextWalk ==
    \/ Reopen
    \/ \E n \in Depths : SetLookbackYears(n)
    \/ \E n \in Depths : SetExistbackYears(n)
    \/ \E y \in YearArgs, id \in IDs : Store(y, id, P1, MetaA)
    \/ \E y \in Years, id \in IDs : Delete(y, id)
    \/ \E y \in YearArgs \cup {BadYear}, id \in IDs : ExistsFromYear(y, id)
    \/ \E y \in YearArgs \cup {BadYear}, id \in IDs : GetFromYear(y, id, <<>>)
    \/ \E y \in YearArgs \cup {BadYear}, id \in IDs : GetMetaFromYear(y, id, <<>>)

SpecWalk == InitWalk /\ [][NextWalk]_vars

----------------------------------------------------------------------------
(* calculatePaths as a function of its two arguments.                      *)

idMid   == <<"a", "b", "C", "D", "e", "f">>
idTail  == <<"a", "b", "c", "d", "E", "F">>
idShort == <<"a", "b", "c">>
idSHORT == <<"A", "B", "C">>
idLong  == idL \o idL \o idL
idLONG  == idL \o idL \o idU
PathIDs == {idL, idU, idMid, idTail, idShort, idSHORT, idLong, idLONG, <<>>}
PathYears == YearArgs \cup {BadYear} \cup {Itoa(BaseYear - MaxBack - k) : k \in 1..3}

InitPaths ==
    /\ rootDir = <<Dot>>
    /\ files = EmptyMap
    /\ dirs = {<<>>}
    /\ cache = EmptyMap
    /\ lookbackYears = 0
    /\ existbackYears = 0
    /\ now = Itoa(BaseYear)
    /\ \E y \in PathYears, id \in PathIDs :
           ret = [NoRet EXCEPT !.op = "input", !.year = y, !.id = id]
    /\ nops = 0
    /\ inflight = NoCalls
    /\ drivers = NoDrivers
    /\ subs = NoSubs

CalcPaths ==
    /\ ret.op = "input"
    /\ ret' = [ret EXCEPT !.op = "calculatePaths",
                          !.paths = calculatePaths(ret.year, ret.id)]
    /\ UNCHANGED <<subs, drivers, inflight, rootDir, files, dirs, cache, lookbackYears, existbackYears, now, nops>>

SpecPaths == InitPaths /\ [][CalcPaths]_vars

----------------------------------------------------------------------------
(* Vocabulary of the properties.                                           *)

\* The year a write resolves its year argument to.
WriteYear(year) == IF year = <<>> THEN now ELSE year

\* Every year directory a document can be in.
AllYears == {Itoa(BaseYear + 1 - k) : k \in 0..(MaxDepth + 1)}

\* The data file of docID is on disk under the year.
DataAt(year, docID) ==
    filePath(rootDir, calculatePaths(year, docID).DataPath) \in DOMAIN files

StoreUnchanged == UNCHANGED <<files, dirs, cache>>

----------------------------------------------------------------------------
(* Properties.                                                             *)

\* C1: a successful Store(year, id, data, meta) followed by Get(Y, id, "") with
\* Y the year Store returned gives back the same bytes and the same metadata,
\* for every root directory.
C1_RoundTrip ==
    [][(/\ ret.op = "Store" /\ ret.err = NoErr
        /\ ret'.op = "Get" /\ ret'.year = ret.ryear /\ ret'.id = ret.id
        /\ ret'.lang = <<>>)
       => (/\ ret'.err = NoErr
           /\ ret'.rdata = ret.data
           /\ ~ret'.rnil
           /\ ret'.rmeta = ret.meta)]_vars

\* C2 as stated: whenever a data file of the id is on disk under any year, Store
\* for the id fails with "document already exists" and changes nothing.
C2_AnyYear ==
    [][(ret'.op = "Store" /\ \E y \in AllYears : DataAt(y, ret'.id))
       => (ret'.err = ErrExists /\ StoreUnchanged)]_vars

\* C2: when the id is in the cache of this instance, or its data file is on disk
\* under the year the call resolves to, Store fails with "document already
\* exists" and changes neither the disk nor the cache.
C2_CreateOnce ==
    [][(/\ ret'.op = "Store"
        /\ \/ ret'.id \in DOMAIN cache
           \/ DataAt(WriteYear(ret'.year), ret'.id))
       => (ret'.err = ErrExists /\ StoreUnchanged)]_vars

\* C2 happens: a Store was refused for a document that Store put there.
C2_Witness ==
    /\ ret.op = "Store" /\ ret.err = ErrExists
    /\ ret.id \in DOMAIN cache
    /\ DataAt(cache[ret.id], ret.id)

\* The year a lookup starts from, and the year n years before it.
StartYear(year) == IF year = <<>> THEN now ELSE year
YearBack(year, n) == Itoa(Atoi(StartYear(year)).val - n)

\* The data file of docID is on disk under the year and under no other year.
StoredOnlyAt(year, docID) ==
    /\ DataAt(year, docID)
    /\ \A z \in AllYears \ {year} : ~DataAt(z, docID)

\* C3: with the lookback depth set to K >= 1, for a document stored N years
\* before the starting year S and in no other year, GetFromYear(S, id, lang)
\* succeeds and reports the year S - N exactly when N < K.
C3_LookbackBoundary ==
    (ret.op = "GetFromYear" /\ ret.year # BadYear /\ lookbackYears >= 1)
    => \A n \in 0..(MaxDepth + 1) :
          StoredOnlyAt(YearBack(ret.year, n), ToLower(ret.id))
          => ((ret.err = NoErr /\ ret.ryear = YearBack(ret.year, n))
              <=> n < lookbackYears)

MetaFile(year, docID, lang) ==
    filePath(rootDir, IF lang = <<>> THEN calculatePaths(year, docID).MetaPath
                      ELSE WithLang(calculatePaths(year, docID).MetaPath, lang))

\* The call returned the metadata held by the file.
ReturnsMetaOf(file) ==
    /\ ret.err = NoErr
    /\ ~ret.rnil
    /\ ret.rmeta = Unmarshal(files[file]).meta

\* C5: a metadata request (Get, GetMeta, GetFromYear, GetMetaFromYear) for a
\* stored document and language tag L returns the variant stored for L when one
\* exists, otherwise the default metadata, and fails only when the default is
\* missing too.
C5_Overlay ==
    LET id == ToLower(ret.id)
        y  == IF ret.op \in {"Get", "GetMeta"} THEN ret.year ELSE ret.ryear
        vf == MetaFile(y, id, normalizeLang(ret.lang))
        df == MetaFile(y, id, <<>>)
    IN (/\ ret.op \in {"Get", "GetMeta", "GetFromYear", "GetMetaFromYear"}
        /\ y # <<>>
        /\ DataAt(y, id))
       => IF ret.lang # <<>> /\ vf \in DOMAIN files THEN ReturnsMetaOf(vf)
          ELSE IF df \in DOMAIN files THEN ReturnsMetaOf(df)
          ELSE ret.err # NoErr

\* C6: StoreMeta for an id whose data file is not on disk under the year the
\* call resolves to fails with not-found and creates no file, no directory and
\* no cache entry.
C6_MetaNeedsData ==
    [][(ret'.op = "StoreMeta" /\ ~DataAt(WriteYear(ret'.year), ret'.id))
       => (ret'.err = ErrNotFound /\ StoreUnchanged)]_vars

\* C6 happens: StoreMeta was refused for an id without data while another
\* document is on disk.
C6_Witness ==
    /\ ret.op = "StoreMeta" /\ ret.err = ErrNotFound
    /\ ~DataAt(WriteYear(ret.year), ret.id)
    /\ files # EmptyMap

\* C7: after Delete(year, id) succeeds, Exists(year, id) is false and
\* Get(year, id, lang) fails with not-found for every language tag.
C7_DeleteRemoves ==
    [][(/\ ret.op = "Delete" /\ ret.err = NoErr
        /\ ret'.op \in {"Exists", "Get"}
        /\ ret'.year = ret.year /\ ret'.id = ret.id)
       => IF ret'.op = "Exists" THEN ~ret'.found
          ELSE ret'.err = ErrNotFound]_vars

\* C8: calculatePaths gives two ids that differ only in letter case the same
\* paths.
C8_CaseInsensitive ==
    ret.op = "calculatePaths"
    => ret.paths = calculatePaths(ret.year, ToLower(ret.id))

\* C9: every operation lower-cases the id on entry: a document stored under an
\* id is found by Exists and Get (same year) under every spelling of the id
\* that differs only in letter case.
C9_LowerCasedOnEntry ==
    [][(/\ ret.op = "Store" /\ ret.err = NoErr
        /\ ret'.op \in {"Exists", "Get"}
        /\ ret'.year = ret.ryear
        /\ ToLower(ret'.id) = ToLower(ret.id)
        /\ ret'.lang = <<>>)
       => IF ret'.op = "Exists" THEN ret'.found
          ELSE ret'.err = NoErr /\ ret'.rdata = ret.data]_vars

\* C10: Exists(year, id) is true exactly when the data file of the lower-cased
\* id is on disk under that year.
C10_ExactYear ==
    ret.op = "Exists" => (ret.found <=> DataAt(ret.year, ToLower(ret.id)))

\* C11: Get and GetMeta perform no fallback: when the data file of the
\* lower-cased id is not on disk under exactly the given year, they fail with
\* not-found, whatever other year holds the document and whatever the cache
\* says.
C11_NoFallback ==
    (ret.op \in {"Get", "GetMeta"} /\ ~DataAt(ret.year, ToLower(ret.id)))
    => ret.err = ErrNotFound

\* C11 happens: Get failed for a document that is on disk under another year,
\* which the cache names.
C11_Witness ==
    /\ ret.op = "Get" /\ ret.err = ErrNotFound
    /\ ToLower(ret.id) \in DOMAIN cache
    /\ cache[ToLower(ret.id)] # ret.year
    /\ DataAt(cache[ToLower(ret.id)], ToLower(ret.id))
    /\ ~DataAt(ret.year, ToLower(ret.id))

\* The state a successful Store(year, docID, data, meta) that returned r leaves:
\* both files written and the cache entry docID -> r recorded.
Stored(r, docID, data, meta) ==
    /\ DataAt(r, docID)
    /\ files[filePath(rootDir, calculatePaths(r, docID).DataPath)] = data
    /\ MetaFile(r, docID, <<>>) \in DOMAIN files
    /\ files[MetaFile(r, docID, <<>>)] = Marshal(meta)
    /\ docID \in DOMAIN cache
    /\ cache[docID] = r

\* C12: a successful Store has written the data file and the default metadata
\* file, has recorded the cache entry id -> r and returns r, the given year or
\* the current year when the given year is empty; a failed Store returns the
\* empty year and leaves the cache as it was.
C12_StoreEffect ==
    [][ret'.op = "Store"
       => IF ret'.err = NoErr
          THEN /\ ret'.ryear = WriteYear(ret'.year)
               /\ (Stored(ret.ryear, ret.id, ret.data, ret.meta))'
          ELSE ret'.ryear = <<>> /\ cache' = cache]_vars

\* C12 happens: a Store with the empty year succeeded on a store that already
\* held a document.
C12_Witness ==
    /\ ret.op = "Store" /\ ret.err = NoErr /\ ret.year = <<>>
    /\ ret.ryear = now
    /\ Cardinality(DOMAIN files) > 2

\* C13: when GetFromYear, GetMetaFromYear or ExistsFromYear resolves an id that
\* is not cached to a year by walking the disk, the cache maps the id to that
\* year afterwards.
C13_CachedOnLookup ==
    [][(/\ ret'.op \in {"GetFromYear", "GetMetaFromYear", "ExistsFromYear"}
        /\ ToLower(ret'.id) \notin DOMAIN cache
        /\ ret'.ryear # <<>>)
       => (/\ ToLower(ret'.id) \in DOMAIN cache'
           /\ cache'[ToLower(ret'.id)] = ret'.ryear)]_vars

----------------------------------------------------------------------------
(* The two depth setters on their own, with arguments around both ends of  *)
(* the accepted range.                                                     *)

DepthArgs == {-1, 0, 1, MaxDepth, MaxYears - 1, MaxYears, MaxYears + 1}

NextDepth ==
    \/ \E n \in DepthArgs : SetLookbackYears(n)
    \/ \E n \in DepthArgs : SetExistbackYears(n)

SpecDepth == Init /\ [][NextDepth]_vars

C15_DefaultDepths ==
    (/\ ret.op \in {"ExistsFromYear", "GetFromYear", "GetMetaFromYear"}
     /\ ret.year # BadYear
     /\ StoredOnlyAt(StartYear(ret.year), ToLower(ret.id)))
    => ret.ryear = StartYear(ret.year)

\* Every data file on disk has its default metadata file next to it.
HasSuffix(s, suf) ==
    Len(s) > Len(suf) /\ SubSeq(s, Len(s) - Len(suf) + 1, Len(s)) = suf
DefaultMetaOf(f) ==
    [f EXCEPT ![Len(f)] = SubSeq(@, 1, Len(@) - Len(DataExt)) \o MetaExt]
DefaultMetaPresent ==
    \A f \in DOMAIN files :
        HasSuffix(f[Len(f)], DataExt) => DefaultMetaOf(f) \in DOMAIN files

\* C16 as stated: in every state reached by Store, StoreMeta, DeleteMeta and
\* Delete calls, every data file has its default metadata file.
C16_DefaultAlways == DefaultMetaPresent

\* C16: every call other than DeleteMeta with an empty language tag keeps the
\* default metadata file next to every data file.
C16_DefaultKept ==
    [][(/\ DefaultMetaPresent
        /\ ~(ret'.op = "DeleteMeta" /\ normalizeLang(ret'.lang) = <<>>))
       => DefaultMetaPresent']_vars

\* C16 happens: DeleteMeta removed a language variant and the document kept
\* its default metadata.
C16_Witness ==
    /\ ret.op = "DeleteMeta" /\ ret.err = NoErr /\ ret.lang # <<>>
    /\ DataAt(ret.year, ret.id)
    /\ MetaFile(ret.year, ret.id, <<>>) \in DOMAIN files
    /\ DefaultMetaPresent

----------------------------------------------------------------------------
(* The store on a disk that can fail the write of a metadata file.         *)

NextFault ==
    \/ Reopen
    \/ \E y \in YearArgs, id \in IDs, doc \in Docs : Store(y, id, doc.data, doc.meta)
    \/ \E y \in YearArgs, id \in IDs, doc \in Docs :
          StoreMetaWriteFails(y, id, doc.data, doc.meta)
    \/ \E y \in Years, id \in IDs : Delete(y, id)
    \/ \E y \in Years, id \in IDs : Exists(y, id)
    \/ \E y \in Years, id \in IDs, l \in Langs : Get(y, id, l)

SpecFault == Init /\ [][NextFault]_vars

\* C17: when Store fails at the write of the default metadata after the data
\* write succeeded, it records no cache entry and the data file remains, and
\* afterwards Exists(year, id) is true and Get(year, id, lang) returns the data
\* bytes together with an error for the metadata.
C17_PartialFailure ==
    [][(/\ ret.op = "Store" /\ ret.err = ErrIO
        /\ ret'.op \in {"Exists", "Get"}
        /\ ret'.year = WriteYear(ret.year) /\ ret'.id = ret.id)
       => /\ ret.id \notin DOMAIN cache
          /\ DataAt(WriteYear(ret.year), ret.id)
          /\ IF ret'.op = "Exists" THEN ret'.found
             ELSE ret'.rdata = ret.data /\ ret'.rnil /\ ret'.err # NoErr]_vars

----------------------------------------------------------------------------
(* Store calls running concurrently on two goroutines of one instance.     *)
(* Each call takes the steps of DocumentStore.Store one at a time; the     *)
(* write of a file is the two system calls of os.WriteFile: open with      *)
(* O_CREATE|O_TRUNC, then write at offset 0 of the descriptor.             *)

Goroutines == {1, 2}
Payloads == {P1, P2}

\* write(2) at offset 0 of a descriptor opened earlier: the bytes replace the
\* head of what the file holds by now.
WriteAt0(old, data) == data \o SubSeq(old, Len(data) + 1, Len(old))

Running(g, pc) == g \in DOMAIN inflight /\ inflight[g].pc = pc

DataPathOf(c) == calculatePaths(c.year, c.id).DataPath
MetaPathOf(c) == calculatePaths(c.year, c.id).MetaPath

Step(g, call) ==
    inflight' = [h \in (DOMAIN inflight) \cup {g} |-> IF h = g THEN call ELSE inflight[h]]

RaceFrame == UNCHANGED <<subs, drivers, rootDir, lookbackYears, existbackYears, now, ret, nops>>

\* the call is made
StoreBegin(g, year, docID, data, meta) ==
    /\ g \notin DOMAIN inflight
    /\ Step(g, [pc |-> "cacheLoad", year |-> year, id |-> docID, data |-> data,
                meta |-> meta, ryear |-> <<>>, err |-> NoErr])
    /\ UNCHANGED <<files, dirs, cache>>
    /\ RaceFrame

\* ds.cache.Load(docID), then the year is resolved
StoreCacheLoad(g) ==
    /\ Running(g, "cacheLoad")
    /\ Step(g, IF inflight[g].id \in DOMAIN cache
               THEN [inflight[g] EXCEPT !.pc = "done", !.err = ErrExists]
               ELSE [inflight[g] EXCEPT !.pc = "fsExists",
                                        !.year = IF @ = <<>> THEN now ELSE @])
    /\ UNCHANGED <<files, dirs, cache>>
    /\ RaceFrame

\* ds.fs.Exists(paths.DataPath)
StoreFsExists(g) ==
    /\ Running(g, "fsExists")
    /\ Step(g, IF fsExists(rootDir, disk, DataPathOf(inflight[g]))
               THEN [inflight[g] EXCEPT !.pc = "done", !.err = ErrExists]
               ELSE [inflight[g] EXCEPT !.pc = "openData"])
    /\ UNCHANGED <<files, dirs, cache>>
    /\ RaceFrame

\* FileSystem.Write up to the open: MkdirAll, then the file created or truncated
OpenTrunc(g, path, next) ==
    /\ \E w \in {fsWrite(rootDir, disk, path, <<>>)} :
           /\ files' = w.disk.files
           /\ dirs' = w.disk.dirs
    /\ Step(g, [inflight[g] EXCEPT !.pc = next])
    /\ UNCHANGED cache
    /\ RaceFrame

\* FileSystem.Write from the write on; the bytes of a file unlinked since the
\* open go to no path
WriteOpened(g, path, data, next) ==
    /\ files' = [f \in DOMAIN files |->
                    IF f = filePath(rootDir, path) THEN WriteAt0(files[f], data)
                    ELSE files[f]]
    /\ Step(g, [inflight[g] EXCEPT !.pc = next])
    /\ UNCHANGED <<dirs, cache>>
    /\ RaceFrame

StoreOpenData(g) ==
    /\ Running(g, "openData")
    /\ OpenTrunc(g, DataPathOf(inflight[g]), "writeData")

StoreWriteData(g) ==
    /\ Running(g, "writeData")
    /\ WriteOpened(g, DataPathOf(inflight[g]), inflight[g].data, "openMeta")

StoreOpenMeta(g) ==
    /\ Running(g, "openMeta")
    /\ OpenTrunc(g, MetaPathOf(inflight[g]), "writeMeta")

StoreWriteMeta(g) ==
    /\ Running(g, "writeMeta")
    /\ WriteOpened(g, MetaPathOf(inflight[g]), Marshal(inflight[g].meta), "cacheStore")

\* ds.cache.Store(docID, year); return year, nil
StoreCacheStore(g) ==
    /\ Running(g, "cacheStore")
    /\ cache' = [k \in (DOMAIN cache) \cup {inflight[g].id} |->
                    IF k = inflight[g].id THEN inflight[g].year ELSE cache[k]]
    /\ Step(g, [inflight[g] EXCEPT !.pc = "done", !.ryear = inflight[g].year])
    /\ UNCHANGED <<files, dirs>>
    /\ RaceFrame

\* The instance before the two calls: new on an empty root, or after one Store
\* of its own, which ret records.
InitRace ==
    /\ rootDir \in Roots
    /\ lookbackYears = 0
    /\ existbackYears = 0
    /\ now = Itoa(BaseYear)
    /\ nops = 0
    /\ inflight = NoCalls
    /\ drivers = NoDrivers
    /\ subs = NoSubs
    /\ \/ /\ files = EmptyDisk(rootDir).files
          /\ dirs = EmptyDisk(rootDir).dirs
          /\ cache = EmptyMap
          /\ ret = [NoRet EXCEPT !.op = "NewDocumentStore", !.changed = TRUE]
       \/ \E y \in Years :
             \E r \in {StoreOp(rootDir, EmptyDisk(rootDir), EmptyMap, now, y, idL, P1, MetaA)} :
                /\ files = r.disk.files
                /\ dirs = r.disk.dirs
                /\ cache = r.cache
                /\ ret = [NoRet EXCEPT !.op = "Store", !.year = y, !.id = idL,
                                       !.data = P1, !.meta = MetaA, !.changed = TRUE,
                                       !.err = r.err, !.ryear = r.year]

NextRace ==
    \E g \in Goroutines :
        \/ \E y \in Years, id \in IDs, data \in Payloads, m \in Metas :
              StoreBegin(g, y, id, data, m)
        \/ StoreCacheLoad(g)
        \/ StoreFsExists(g)
        \/ StoreOpenData(g)
        \/ StoreWriteData(g)
        \/ StoreOpenMeta(g)
        \/ StoreWriteMeta(g)
        \/ StoreCacheStore(g)

SpecRace == InitRace /\ [][NextRace]_vars

\* Both calls have returned.
BothDone == Running(1, "done") /\ Running(2, "done")

\* The id was not stored before the two calls were made.
NewId(docID) == ~(ret.op = "Store" /\ ret.id = docID)

\* C18: when two concurrent Store calls for the same new id, the same year and
\* the same payload have both returned, at least one of them succeeded, the
\* data file holds the payload, the default metadata file holds one of the two
\* metadata values whole, and the cache maps the id to the year.
C18_StoreRace ==
    (/\ BothDone
     /\ inflight[1].id = inflight[2].id /\ NewId(inflight[1].id)
     /\ inflight[1].year = inflight[2].year
     /\ inflight[1].data = inflight[2].data)
    => /\ inflight[1].err = NoErr \/ inflight[2].err = NoErr
       /\ DataAt(inflight[1].year, inflight[1].id)
       /\ files[filePath(rootDir, DataPathOf(inflight[1]))] = inflight[1].data
       /\ MetaFile(inflight[1].year, inflight[1].id, <<>>) \in DOMAIN files
       /\ files[MetaFile(inflight[1].year, inflight[1].id, <<>>)]
             \in {Marshal(inflight[1].meta), Marshal(inflight[2].meta)}
       /\ inflight[1].id \in DOMAIN cache
       /\ cache[inflight[1].id] = inflight[1].year

\* The data files on disk, and the id and the year directory of one: the leaf
\* directory of a data file is the id, the first segment under the root is the
\* year.
DataFiles == {f \in DOMAIN files : HasSuffix(f[Len(f)], DataExt)}
IdOf(f) == f[Len(f) - 1]
YearOf(f) == f[Len(Clean(rootDir)) + 1]

\* C19: in every state reached through Store calls on one instance, sequential
\* or concurrent, an id has its data file under at most one year, and the cache
\* entry of the id, when there is one, names that year.
C19_SingleYear ==
    /\ \A f1, f2 \in DataFiles : IdOf(f1) = IdOf(f2) => YearOf(f1) = YearOf(f2)
    /\ \A f \in DataFiles : IdOf(f) \in DOMAIN cache => cache[IdOf(f)] = YearOf(f)

\* The instance before the two calls, rebuilt from the call ret records.
BaseState ==
    IF ret.op = "Store"
    THEN StoreOp(rootDir, EmptyDisk(rootDir), EmptyMap, now,
                 ret.year, ret.id, ret.data, ret.meta)
    ELSE [disk |-> EmptyDisk(rootDir), cache |-> EmptyMap, year |-> <<>>, err |-> NoErr]

\* Store for call a, then Store for call b, one after the other.
OneAfterTheOther(a, b) ==
    LET r1 == StoreOp(rootDir, BaseState.disk, BaseState.cache, now,
                      a.year, a.id, a.data, a.meta)
        r2 == StoreOp(rootDir, r1.disk, r1.cache, now, b.year, b.id, b.data, b.meta)
    IN [disk |-> r2.disk, cache |-> r2.cache,
        first |-> <<r1.year, r1.err>>, second |-> <<r2.year, r2.err>>]

Returned(g) == <<inflight[g].ryear, inflight[g].err>>

----------------------------------------------------------------------------
(* The path-template engine of the filesystem driver (package fs).  A      *)
(* template is a string; a parsed template is the list of its handlers,    *)
(* held by the key they were looked up with.                               *)

\* strings.Split(s, sep) for a one-character separator: always at least one
\* part, the empty string giving one empty part
RECURSIVE Split(_, _)
Split(s, sep) ==
    LET i == IndexOf(s, sep)
    IN IF i = 0 THEN <<s>>
       ELSE <<SubSeq(s, 1, i - 1)>> \o Split(SubSeq(s, i + 1, Len(s)), sep)

ErrDocSubs == "invalid doc-subs defined"
ErrResSubs == "invalid res-subs defined"
ErrSyntax  == "strconv.Atoi: invalid syntax"
ErrJSON    == "json"

\* the literal the tokens are looked up in by docSubs.Parse
DocFlags == <<"Y", "M", "D", "h", "m", "s">>

\* docSubs.Parse taking any one-character token
docSubsParseAnyFlag(cfg) ==
    LET tmp == Split(cfg, "/")
    IN IF \E i \in 1..Len(tmp) : Len(tmp[i]) # 1
       THEN [err |-> ErrDocSubs, doc |-> <<>>]
       ELSE [err |-> NoErr, doc |-> [i \in 1..Len(tmp) |-> "Y"]]

\* docSubs.Parse: the handler keys, or the error of the first bad token.  The
\* call strings.Split("/") of the source is read as strings.Split(cfg, "/").
docSubsParse(cfg) ==
    LET tmp == Split(cfg, "/")
    IN IF \E i \in 1..Len(tmp) : Len(tmp[i]) # 1 \/ StrIndex(DocFlags, tmp[i]) < 0
       THEN [err |-> ErrDocSubs, doc |-> <<>>]
       ELSE [err |-> NoErr, doc |-> [i \in 1..Len(tmp) |-> tmp[i][1]]]

\* digits of n padded with zeros to width w (time.Format of a numeric field)
Pad(n, w) ==
    LET d == NatDigits(n)
    IN [i \in 1..(IF Len(d) < w THEN w - Len(d) ELSE 0) |-> "0"] \o d

IsLeap(y) == (y % 4 = 0 /\ y % 100 # 0) \/ y % 400 = 0

DaysIn(y, mo) ==
    IF mo = 2 THEN (IF IsLeap(y) THEN 29 ELSE 28)
    ELSE IF mo \in {4, 6, 9, 11} THEN 30 ELSE 31

\* time.Time.YearDay: 1 for January 1st
RECURSIVE DaysBefore(_, _)
DaysBefore(y, mo) == IF mo = 1 THEN 0 ELSE DaysBefore(y, mo - 1) + DaysIn(y, mo - 1)

YearDay(tm) == DaysBefore(tm.Y, tm.M) + tm.D

\* docDirHandlers[k](tm)
docDirHandlers(k, tm) ==
    CASE k = "Y" -> Pad(tm.Y, 4)
      [] k = "M" -> Pad(tm.M, 2)
      [] k = "D" -> Pad(tm.D, 2)
      [] k = "h" -> Pad(tm.h, 2)
      [] k = "m" -> Pad(tm.m, 2)
      [] k = "s" -> Pad(tm.s, 2)
      [] k = "d" -> Itoa(YearDay(tm))

\* docSubs.Dir: one segment per handler, joined
docSubsDir(doc, tm) == Clean([i \in 1..Len(doc) |-> docDirHandlers(doc[i], tm)])

\* byte | 0x20 on [0-9a-zA-Z]: digits and lower-case letters have the bit set
Or0x20(c) == LowerCh(c)

\* the closure getResDirer(n) applied to id: id[n] is indexed from 0, so it
\* is the character after the n-th one, and there is none when n = len(id)
getResDirer(n, id) ==
    IF n > Len(id) THEN [panic |-> FALSE, seg |-> <<>>]
    ELSE IF n + 1 > Len(id) THEN [panic |-> TRUE, seg |-> <<>>]
    ELSE [panic |-> FALSE, seg |-> <<Or0x20(id[n + 1])>>]

\* resSubs.Parse: the offsets, or the error of the first bad token
RECURSIVE resSubsParseFrom(_, _, _)
resSubsParseFrom(tmp, i, res) ==
    IF i > Len(tmp) THEN [err |-> NoErr, res |-> res]
    ELSE IF ~Atoi(tmp[i]).ok THEN [err |-> ErrSyntax, res |-> <<>>]
    ELSE IF Atoi(tmp[i]).val <= 0 THEN [err |-> ErrResSubs, res |-> <<>>]
    ELSE resSubsParseFrom(tmp, i + 1, Append(res, Atoi(tmp[i]).val))

resSubsParse(cfg) == resSubsParseFrom(Split(cfg, "/"), 1, <<>>)

\* resSubs.Dir: one segment per offset, joined; the call panics when a
\* handler does
resSubsDir(res, hash) ==
    IF \E i \in 1..Len(res) : getResDirer(res[i], hash).panic
    THEN [panic |-> TRUE, path |-> <<>>]
    ELSE [panic |-> FALSE,
          path |-> Clean([i \in 1..Len(res) |-> getResDirer(res[i], hash).seg])]

\* the default configuration values of the driver
DataDir == <<<<"_", "d", "a", "t", "a">>>>
ResDir  == <<<<"_", "d", "a", "t", "a">>, <<"r", "e", "s", "o", "u", "r", "c", "e", "s">>>>
DocPath == <<"Y", "/", "M", "/", "D">>
ResPath == <<"1", "/", "2", "/", "3">>

\* the process's working directory, which filepath.Abs puts before a
\* relative path
Getwd == <<<<"s", "r", "v">>>>

Abs(p) == Join(Getwd, p)

\* the JSON names of the fields of fs.Config: the tags of Root and Resroot
\* lack the colon, so these two go by their field names
KeyRoot    == <<"R", "o", "o", "t">>
KeyResroot == <<"R", "e", "s", "r", "o", "o", "t">>
KeyDocdir  == <<"d", "o", "c", "d", "i", "r">>
KeyResdir  == <<"r", "e", "s", "d", "i", "r">>

\* a store.Config is a JSON text: here the list of the members <<name, value>>
\* of its object, or BadJSON for a text that is not a JSON object
BadJSON == "not json"

\* json.Unmarshal into an fs.Config: a member sets the field whose JSON name
\* equals its name up to letter case, any other member is skipped
RECURSIVE configUnmarshal(_, _, _)
configUnmarshal(members, i, cfg) ==
    IF i > Len(members) THEN cfg
    ELSE LET k == ToLower(members[i][1])
             v == members[i][2]
         IN configUnmarshal(members, i + 1,
                CASE k = ToLower(KeyRoot)    -> [cfg EXCEPT !.Root = v]
                  [] k = ToLower(KeyResroot) -> [cfg EXCEPT !.Resroot = v]
                  [] k = ToLower(KeyDocdir)  -> [cfg EXCEPT !.DocDirs = v]
                  [] k = ToLower(KeyResdir)  -> [cfg EXCEPT !.ResDirs = v]
                  [] OTHER -> cfg)

NoDirs == [doc |-> <<>>, res |-> <<>>, docRoot |-> <<>>, resRoot |-> <<>>]

\* dirs.init: both roots made absolute, then both templates parsed, the
\* document template first
dirsInit(cfg) ==
    LET d == docSubsParse(cfg.DocDirs)
        r == resSubsParse(cfg.ResDirs)
    IN IF d.err # NoErr THEN [err |-> d.err, ds |-> NoDirs]
       ELSE IF r.err # NoErr THEN [err |-> r.err, ds |-> NoDirs]
       ELSE [err |-> NoErr,
             ds |-> [doc |-> d.doc, res |-> r.res,
                     docRoot |-> Abs(cfg.Root), resRoot |-> Abs(cfg.Resroot)]]

\* the Storer a failed call returns
NilStore == [nil |-> TRUE, ds |-> NoDirs]

\* Driver.Conn: the defaults, overridden by the configuration, then
\* dirs.init.  The composite literal of the source names the fields Resdir,
\* Docpath and Respath; they are read as Resroot, DocDirs and ResDirs, the
\* fields fs.Config has.
Conn(data) ==
    IF data = BadJSON THEN [err |-> ErrJSON, store |-> NilStore]
    ELSE LET cfg == configUnmarshal(data, 1,
                        [Root |-> DataDir, Resroot |-> ResDir,
                         DocDirs |-> DocPath, ResDirs |-> ResPath])
             r == dirsInit(cfg)
         IN IF r.err # NoErr THEN [err |-> r.err, store |-> NilStore]
            ELSE [err |-> NoErr, store |-> [nil |-> FALSE, ds |-> r.ds]]

----------------------------------------------------------------------------
(* The driver registry (package store).  A call either returns or panics;  *)
(* NoPanic marks a call that returned.                                     *)

NoPanic         == "returned"
PanicNilDriver  == "store driver is nil."
PanicDuplicate  == "already exists in store.drivers."
PanicNoDriver   == "driver not exist with store."

\* the nil Driver
NilDriver == "nil"

\* Register as a map overwrite: a registered name is rebound
RegisterRebind(ds, name, driver) ==
    IF driver = NilDriver THEN [panic |-> PanicNilDriver, drivers |-> ds]
    ELSE [panic |-> NoPanic,
          drivers |-> [n \in DOMAIN ds \cup {name} |-> IF n = name THEN driver ELSE ds[n]]]

\* store.Register
RegisterOp(ds, name, driver) ==
    IF driver = NilDriver THEN [panic |-> PanicNilDriver, drivers |-> ds]
    ELSE IF name \in DOMAIN ds THEN [panic |-> PanicDuplicate, drivers |-> ds]
    ELSE [panic |-> NoPanic,
          drivers |-> [n \in DOMAIN ds \cup {name} |-> IF n = name THEN driver ELSE ds[n]]]

\* Driver.Conn through the interface: fs.Driver is the one implementation
DriverConn(driver, cfg) == Conn(cfg)

\* store.Open
OpenOp(ds, driverName, cfg) ==
    IF driverName \notin DOMAIN ds
    THEN [panic |-> PanicNoDriver, store |-> NilStore, err |-> NoErr]
    ELSE LET c == DriverConn(ds[driverName], cfg)
         IN IF c.err # NoErr
            THEN [panic |-> NoPanic, store |-> NilStore, err |-> c.err]
            ELSE [panic |-> NoPanic, store |-> c.store, err |-> NoErr]

\* the names and the driver values of the calls: two fs.Driver values, so
\* that rebinding a name shows
DriverNames  == {"fs", "filesystem", "mongodb"}
DriverValues == {"&fs.Driver{} (1)", "&fs.Driver{} (2)"}

\* configurations: not JSON, the defaults, and objects setting one template
RegistryConfigs ==
    {BadJSON, <<>>,
     <<<<KeyDocdir, <<"h", "/", "m">>>>>>,
     <<<<KeyDocdir, <<"Y", "/", "x">>>>>>,
     <<<<KeyResdir, <<"2", "/", "0">>>>>>,
     <<<<KeyResdir, <<"4">>>>, <<KeyRoot, <<<<"v", "a", "r">>>>>>>>}

NoCall == [op |-> "none", name |-> "", driver |-> NilDriver, cfg |-> <<>>,
           panic |-> NoPanic, store |-> NilStore, err |-> NoErr]

InitRegistry ==
    /\ rootDir = <<Dot>>
    /\ files = EmptyMap
    /\ dirs = {<<>>}
    /\ cache = EmptyMap
    /\ lookbackYears = 0
    /\ existbackYears = 0
    /\ now = Itoa(BaseYear)
    /\ ret = NoCall
    /\ nops = 0
    /\ inflight = NoCalls
    /\ drivers = NoDrivers
    /\ subs = NoSubs

RegistryFrame ==
    UNCHANGED <<rootDir, files, dirs, cache, lookbackYears, existbackYears, now, nops,
                inflight, subs>>

Register(name, driver) ==
    /\ \E r \in {RegisterOp(drivers, name, driver)} :
           /\ drivers' = r.drivers
           /\ ret' = [NoCall EXCEPT !.op = "Register", !.name = name,
                                    !.driver = driver, !.panic = r.panic]
    /\ RegistryFrame

Open(driverName, cfg) ==
    /\ \E r \in {OpenOp(drivers, driverName, cfg)} :
           ret' = [NoCall EXCEPT !.op = "Open", !.name = driverName, !.cfg = cfg,
                                 !.panic = r.panic, !.store = r.store, !.err = r.err]
    /\ UNCHANGED drivers
    /\ RegistryFrame

NextRegistry ==
    \/ \E name \in DriverNames, driver \in DriverValues \cup {NilDriver} :
           Register(name, driver)
    \/ \E name \in DriverNames, cfg \in RegistryConfigs : Open(name, cfg)

SpecRegistry == InitRegistry /\ [][NextRegistry]_vars

\* C21: Register panics exactly when the driver is nil or the name is taken
\* and then leaves the registry as it was, else it binds the name and nothing
\* else; no call ever rebinds or drops a registered name; Open panics exactly
\* when the name is not registered, else it returns what the Conn of the
\* driver bound to the name returns: the connection, or the error and no
\* connection.
C21_Registry ==
    [][/\ \A n \in DOMAIN drivers : n \in DOMAIN drivers' /\ drivers'[n] = drivers[n]
       /\ ret'.op = "Register" =>
              IF ret'.driver = NilDriver \/ ret'.name \in DOMAIN drivers
              THEN ret'.panic # NoPanic /\ drivers' = drivers
              ELSE /\ ret'.panic = NoPanic
                   /\ DOMAIN drivers' = DOMAIN drivers \cup {ret'.name}
                   /\ drivers'[ret'.name] = ret'.driver
       /\ ret'.op = "Open" =>
              /\ drivers' = drivers
              /\ IF ret'.name \notin DOMAIN drivers
                 THEN ret'.panic # NoPanic
                 ELSE /\ ret'.panic = NoPanic
                      /\ ret'.err = DriverConn(drivers[ret'.name], ret'.cfg).err
                      /\ ret'.store = DriverConn(drivers[ret'.name], ret'.cfg).store
                      /\ (ret'.err # NoErr) = (ret'.store = NilStore)]_vars

\* C21 happens: a Register call for a name bound to another driver has
\* panicked, with a second name bound too.
C21_Witness ==
    /\ ret.op = "Register"
    /\ ret.panic = PanicDuplicate
    /\ ret.name \in DOMAIN drivers
    /\ drivers[ret.name] # ret.driver
    /\ Cardinality(DOMAIN drivers) = 2

----------------------------------------------------------------------------
(* Store.Hash of the filesystem driver.  Its body, like those of Get, Save *)
(* and Remove, is empty: the source fixes no result, so a call is taken to *)
(* yield any value of the result type.                                     *)

\* a digest is held as the bytes it was computed over: equal digests, equal
\* bytes
Digest(bytes) == [nil |-> FALSE, sum |-> bytes]

\* the nil []byte
NilBytes == [nil |-> TRUE, sum |-> <<>>]

MaxBytes == 3
Bytes == {0, 1}
Contents == UNION {[1..n -> Bytes] : n \in 0..MaxBytes}

\* every digest a call on this content could hand back
RangeDigests(content) ==
    {Digest(SubSeq(content, b + 1, e)) : b \in 0..Len(content), e \in 0..Len(content)}

\* Store.Hash: the values the empty body allows
StoreHash(content, id, beg, size) == {NilBytes} \cup RangeDigests(content)

NoHash == [op |-> "input", content |-> <<>>, id |-> Digest(<<>>), beg |-> 0, size |-> 0,
           digest |-> NilBytes]

InitHash ==
    /\ rootDir = <<Dot>>
    /\ files = EmptyMap
    /\ dirs = {<<>>}
    /\ cache = EmptyMap
    /\ lookbackYears = 0
    /\ existbackYears = 0
    /\ now = Itoa(BaseYear)
    /\ \E c \in Contents, b \in 0..(MaxBytes + 1), n \in -1..(MaxBytes + 1) :
           ret = [NoHash EXCEPT !.content = c, !.id = Digest(c), !.beg = b, !.size = n]
    /\ nops = 0
    /\ inflight = NoCalls
    /\ drivers = NoDrivers
    /\ subs = NoSubs

Hash ==
    /\ ret.op = "input"
    /\ \E h \in StoreHash(ret.content, ret.id, ret.beg, ret.size) :
           ret' = [ret EXCEPT !.op = "Hash", !.digest = h]
    /\ UNCHANGED <<subs, drivers, inflight, rootDir, files, dirs, cache, lookbackYears,
                   existbackYears, now, nops>>

SpecHash == InitHash /\ [][Hash]_vars

\* the last byte of the range Hash(id, beg, size) names, size = -1 running to
\* the end of the data
RangeEnd(content, beg, size) == IF size = -1 THEN Len(content) ELSE beg + size

\* C22: Hash(id, beg, size) returns the digest of the bytes [beg, beg+size) of
\* the content stored under id, to the end of the data when size = -1, so
\* that Hash(id, 0, -1) is the id; it returns nil when the range is empty or
\* reaches beyond the data.
C22_RangeDigest ==
    ret.op = "Hash" =>
        LET e == RangeEnd(ret.content, ret.beg, ret.size)
        IN IF ret.beg < e /\ e <= Len(ret.content)
           THEN /\ ret.digest = Digest(SubSeq(ret.content, ret.beg + 1, e))
                /\ (ret.beg = 0 /\ ret.size = -1) => ret.digest = ret.id
           ELSE ret.digest = NilBytes

----------------------------------------------------------------------------
(* The template engine as pure functions: a template, a time and an        *)
(* identifier are drawn, then one of the parsers is applied, followed by   *)
(* its Dir when the template parsed.                                       *)

MaxTemplate == 3
TemplateChars == {"Y", "d", "x", "/", "0", "1", "2", "-"}

\* every string of up to MaxTemplate characters, and some longer templates
Templates ==
    UNION {[1..n -> TemplateChars] : n \in 0..MaxTemplate}
    \cup {DocPath, ResPath,
          <<"h", "/", "m", "/", "s">>, <<"D", "/", "d", "/", "Y">>,
          <<"s", "/", "Y", "/", "d", "/", "M">>, <<"Y", "/", "M", "/", "Y", "M">>,
          <<"3", "/", "1", "/", "2">>, <<"2", "/", "1", "0", "/", "1">>,
          <<"2", "/", "+", "1">>, <<"1", "/", "-", "1">>, <<"1", "/", "/", "2">>}

\* a time and an identifier per drawing
TemplateArgs ==
    {[tm |-> [Y |-> 2024, M |-> 3, D |-> 1, h |-> 0, m |-> 5, s |-> 59],
      id |-> <<>>],
     [tm |-> [Y |-> 2025, M |-> 12, D |-> 31, h |-> 23, m |-> 0, s |-> 7],
      id |-> <<"A">>],
     [tm |-> [Y |-> 2023, M |-> 1, D |-> 9, h |-> 12, m |-> 30, s |-> 0],
      id |-> <<"0", "a">>],
     [tm |-> [Y |-> 987, M |-> 4, D |-> 10, h |-> 9, m |-> 59, s |-> 30],
      id |-> <<"0", "B", "c", "D">>]}

NoTemplate == [op |-> "input", cfg |-> <<>>, tm |-> [Y |-> 1, M |-> 1, D |-> 1, h |-> 0, m |-> 0, s |-> 0],
               id |-> <<>>, key |-> <<>>, err |-> NoErr, segs |-> <<>>, path |-> <<>>,
               panic |-> FALSE, store |-> NilStore]

InitTemplate ==
    /\ rootDir = <<Dot>>
    /\ files = EmptyMap
    /\ dirs = {<<>>}
    /\ cache = EmptyMap
    /\ lookbackYears = 0
    /\ existbackYears = 0
    /\ now = Itoa(BaseYear)
    /\ \E t \in Templates, a \in TemplateArgs :
           ret = [NoTemplate EXCEPT !.cfg = t, !.tm = a.tm, !.id = a.id]
    /\ nops = 0
    /\ inflight = NoCalls
    /\ drivers = NoDrivers
    /\ subs = NoSubs

TemplateFrame ==
    UNCHANGED <<subs, drivers, inflight, rootDir, files, dirs, cache, lookbackYears,
                existbackYears, now, nops>>

\* ds.Parse(cfg), then ds.Dir(tm) when that succeeded
DocTemplate ==
    /\ ret.op = "input"
    /\ \E r \in {docSubsParse(ret.cfg)} :
           ret' = [ret EXCEPT !.op = "docSubs", !.err = r.err, !.segs = r.doc,
                              !.path = IF r.err = NoErr THEN docSubsDir(r.doc, ret.tm)
                                       ELSE <<>>]
    /\ TemplateFrame

\* rs.Parse(cfg), then rs.Dir(id) when that succeeded
ResTemplate ==
    /\ ret.op = "input"
    /\ \E r \in {resSubsParse(ret.cfg)} :
           ret' = [ret EXCEPT !.op = "resSubs", !.err = r.err, !.segs = r.res,
                              !.panic = r.err = NoErr /\ resSubsDir(r.res, ret.id).panic,
                              !.path = IF r.err = NoErr THEN resSubsDir(r.res, ret.id).path
                                       ELSE <<>>]
    /\ TemplateFrame

\* Driver.Conn on a configuration that sets one of the two templates
ConnTemplate ==
    /\ ret.op = "input"
    /\ \E key \in {KeyDocdir, KeyResdir} :
           \E r \in {Conn(<<<<key, ret.cfg>>>>)} :
               ret' = [ret EXCEPT !.op = "Conn", !.key = key, !.err = r.err,
                                  !.store = r.store]
    /\ TemplateFrame

NextTemplate == DocTemplate \/ ResTemplate \/ ConnTemplate

SpecTemplate == InitTemplate /\ [][NextTemplate]_vars

\* the seven tokens of a timestamp template
DocTokens == {"Y", "M", "D", "h", "m", "s", "d"}

\* seg is the decimal rendering of n in exactly w digits
Renders(seg, n, w) == Len(seg) = w /\ IsDigits(seg) /\ DecVal(seg) = n

\* seg is what token k stands for at time tm
RendersToken(seg, k, tm) ==
    CASE k = "Y" -> Renders(seg, tm.Y, 4)
      [] k = "M" -> Renders(seg, tm.M, 2)
      [] k = "D" -> Renders(seg, tm.D, 2)
      [] k = "h" -> Renders(seg, tm.h, 2)
      [] k = "m" -> Renders(seg, tm.m, 2)
      [] k = "s" -> Renders(seg, tm.s, 2)
      [] k = "d" -> seg = Itoa(YearDay(tm))

\* C23: docSubs.Parse accepts every '/'-separated template whose tokens are
\* each one of Y, M, D, h, m, s, d, in any order, and Dir(t) then has one
\* segment per token, the i-th being the rendering of the i-th token.
C23_TimestampTemplate ==
    LET tokens == Split(ret.cfg, "/")
    IN (/\ ret.op = "docSubs"
        /\ \A i \in 1..Len(tokens) : Len(tokens[i]) = 1 /\ tokens[i][1] \in DocTokens)
       => /\ ret.err = NoErr
          /\ Len(ret.path) = Len(tokens)
          /\ \A i \in 1..Len(tokens) : RendersToken(ret.path[i], tokens[i][1], ret.tm)

\* the segment token n stands for on id: the n-th character, counted from 1,
\* in lower case, or nothing past the end of id
SegmentOf(n, id) == IF n <= Len(id) THEN <<LowerCh(id[n])>> ELSE <<>>

\* C24: for every token n >= 1 and every identifier the segment function
\* returns the lower-cased n-th character of the identifier when n <= len(id)
\* and the empty, skipped, segment when n > len(id); it never aborts, n =
\* len(id) included, so Dir is the chain of these segments.
C24_IdentifierTemplate ==
    (ret.op = "resSubs" /\ ret.err = NoErr)
    => /\ ~ret.panic
       /\ ret.path = Clean([i \in 1..Len(ret.segs) |-> SegmentOf(ret.segs[i], ret.id)])

\* a token of an identifier template that is a positive integer: decimal
\* digits, a leading + allowed, of a value above zero
PositiveInteger(tok) ==
    LET digits == IF tok # <<>> /\ tok[1] = "+" THEN Tail(tok) ELSE tok
    IN IsDigits(digits) /\ DecVal(digits) > 0

BadDocTemplate(cfg) ==
    \E i \in 1..Len(Split(cfg, "/")) :
        LET tok == Split(cfg, "/")[i] IN ~(Len(tok) = 1 /\ tok[1] \in DocTokens)

BadResTemplate(cfg) ==
    \E i \in 1..Len(Split(cfg, "/")) : ~PositiveInteger(Split(cfg, "/")[i])

\* C25: parsing a template fails with an error, and yields no segment list,
\* when a token is empty, is not one of the recognised timestamp tokens, or
\* (identifier template) is not a positive integer; Conn on a configuration
\* with such a template returns that error and no store.
C25_BadTemplate ==
    /\ (ret.op = "docSubs" /\ BadDocTemplate(ret.cfg))
       => ret.err = ErrDocSubs /\ ret.segs = <<>> /\ ret.path = <<>>
    /\ (ret.op = "resSubs" /\ BadResTemplate(ret.cfg))
       => ret.err \in {ErrSyntax, ErrResSubs} /\ ret.segs = <<>> /\ ret.path = <<>>
    /\ (ret.op = "Conn" /\ ret.key = KeyDocdir /\ BadDocTemplate(ret.cfg))
       => ret.err = ErrDocSubs /\ ret.store = NilStore
    /\ (ret.op = "Conn" /\ ret.key = KeyResdir /\ BadResTemplate(ret.cfg))
       => ret.err \in {ErrSyntax, ErrResSubs} /\ ret.store = NilStore

\* C25 happens: Conn was given an identifier template with an empty token
\* after a good one and returned the parser's error and no store.
C25_Witness ==
    /\ ret.op = "Conn"
    /\ ret.key = KeyResdir
    /\ ret.cfg = <<"1", "/", "/", "2">>
    /\ ret.err = ErrSyntax
    /\ ret.store = NilStore

----------------------------------------------------------------------------
(* The filesystem adapter on its own: the calls of FileSystem on relative  *)
(* paths, on the disk NewFileSystem leaves.                                *)

segA == <<"a">>
segD == <<"d">>

\* relative paths of files, and of directories to list
FsPaths == {<<segA>>, <<segD, segA>>}
FsDirs  == {<<>>, <<segD>>}

NoFsCall == [op |-> "none", path |-> <<>>, data |-> <<>>, err |-> NoErr,
             rdata |-> <<>>, names |-> {}]

InitFS ==
    /\ rootDir \in Roots
    /\ files = EmptyDisk(rootDir).files
    /\ dirs = EmptyDisk(rootDir).dirs
    /\ cache = EmptyMap
    /\ lookbackYears = 0
    /\ existbackYears = 0
    /\ now = Itoa(BaseYear)
    /\ ret = NoFsCall
    /\ nops = 0
    /\ inflight = NoCalls
    /\ drivers = NoDrivers
    /\ subs = NoSubs

FsFrame ==
    UNCHANGED <<subs, drivers, inflight, rootDir, cache, lookbackYears, existbackYears, now,
                nops>>

Write(path, data) ==
    /\ \E r \in {fsWrite(rootDir, disk, path, data)} :
           /\ files' = r.disk.files
           /\ dirs' = r.disk.dirs
           /\ ret' = [NoFsCall EXCEPT !.op = "Write", !.path = path, !.data = data,
                                      !.err = r.err]
    /\ FsFrame

Read(path) ==
    /\ \E r \in {fsRead(rootDir, disk, path)} :
           ret' = [NoFsCall EXCEPT !.op = "Read", !.path = path, !.err = r.err,
                                   !.rdata = r.data]
    /\ UNCHANGED <<files, dirs>>
    /\ FsFrame

Remove(path) ==
    /\ \E r \in {fsRemove(rootDir, disk, path)} :
           /\ files' = r.disk.files
           /\ dirs' = r.disk.dirs
           /\ ret' = [NoFsCall EXCEPT !.op = "Remove", !.path = path, !.err = r.err]
    /\ FsFrame

List(dirPath) ==
    /\ \E r \in {fsList(rootDir, disk, dirPath)} :
           ret' = [NoFsCall EXCEPT !.op = "List", !.path = dirPath, !.err = r.err,
                                   !.names = r.names]
    /\ UNCHANGED <<files, dirs>>
    /\ FsFrame

NextFS ==
    \/ \E path \in FsPaths, data \in {P1, P2} : Write(path, data)
    \/ \E path \in FsPaths : Read(path)
    \/ \E path \in FsPaths : Remove(path)
    \/ \E dirPath \in FsDirs : List(dirPath)

SpecFS == InitFS /\ [][NextFS]_vars

\* the place root/p
Under(root, p) == Clean(root \o p)

\* C26: for every root and relative path p, Read(p) and Remove(p) fail with
\* not-found exactly when there is nothing at root/p; Read(p) right after a
\* successful Write(p, d) returns d, Remove(p) right after it succeeds and
\* leaves Exists(p) false; List(dir) succeeds for every directory root/dir
\* that exists.
C26_Adapter ==
    [][/\ ret'.op \in {"Read", "Remove"} =>
              ((ret'.err = ErrNotFound) <=> StatNotExist(disk, Under(rootDir, ret'.path)))
       /\ (ret.op = "Write" /\ ret.err = NoErr /\ ret'.op = "Read" /\ ret'.path = ret.path)
              => (ret'.err = NoErr /\ ret'.rdata = ret.data)
       /\ (ret.op = "Write" /\ ret.err = NoErr /\ ret'.op = "Remove" /\ ret'.path = ret.path)
              => (ret'.err = NoErr /\ ~fsExists(rootDir, [files |-> files', dirs |-> dirs'], ret.path))
       /\ (ret'.op = "List" /\ Under(rootDir, ret'.path) \in dirs)
              => ret'.err = NoErr]_vars

----------------------------------------------------------------------------

\* C27: DeleteMeta(year, id, lang) removes the metadata variant of the
\* normalised tag, the default one for the empty tag, and nothing else: the
\* data file, the other variants and the cache stay; when the variant does
\* not exist the call fails with not-found and changes nothing.
C27_DeleteMetaOne ==
    [][ret'.op = "DeleteMeta" =>
          LET target == MetaFile(ret'.year, ret'.id, normalizeLang(ret'.lang))
          IN /\ cache' = cache
             /\ IF target \in DOMAIN files
                THEN /\ ret'.err = NoErr
                     /\ DOMAIN files' = DOMAIN files \ {target}
                     /\ \A f \in DOMAIN files' : files'[f] = files[f]
                ELSE /\ ret'.err = ErrNotFound
                     /\ files' = files
                     /\ dirs' = dirs]_vars

\* the calls that resolve the year by a walk, and the depth each walks to
WalkOps == {"ExistsFromYear", "GetFromYear", "GetMetaFromYear"}

WalkDepth == IF ret.op = "ExistsFromYear" THEN existbackYears ELSE lookbackYears

\* a decimal integer: digits, with or without a sign
DecimalInteger(s) ==
    IsDigits(IF s # <<>> /\ s[1] \in {"+", "-"} THEN Tail(s) ELSE s)

\* the call failed: false from ExistsFromYear, the invalid-year error from
\* the two others
FailedInvalidYear ==
    IF ret.op = "ExistsFromYear" THEN ~ret.found ELSE ret.err = ErrYear

\* C28 as stated: every *FromYear call with a non-empty start year that is
\* not a decimal integer fails without an existence probe, and every walk
\* makes at most as many probes as the configured depth.
C28_WalkValidated ==
    ret.op \in WalkOps
    => /\ (ret.year # <<>> /\ ~DecimalInteger(ret.year))
              => (FailedInvalidYear /\ ret.probes = 0)
       /\ ret.probes <= WalkDepth

\* C28: the same for the calls whose id is not in the cache, the ones that
\* walk; a cached id is answered from the cache before the year is looked at.
C28_WalkValidatedUncached ==
    (ret.op \in WalkOps /\ ToLower(ret.id) \notin DOMAIN cache)
    => /\ (ret.year # <<>> /\ ~DecimalInteger(ret.year))
              => (FailedInvalidYear /\ ret.probes = 0)
       /\ ret.probes <= WalkDepth

\* C28 happens: GetFromYear with a start year that is no number failed for a
\* document that is on disk and not cached, with a depth that would have
\* reached it.
C28_Witness ==
    /\ ret.op = "GetFromYear"
    /\ ret.year = BadYear
    /\ ret.err = ErrYear
    /\ ToLower(ret.id) \notin DOMAIN cache
    /\ DataAt(now, ToLower(ret.id))
    /\ lookbackYears = MaxDepth

----------------------------------------------------------------------------
(* The field accessors of BaseMeta (docdef.go).  Each takes the object and *)
(* the argument and gives the object after the call and the value          *)
(* returned.                                                               *)

\* the zero BaseMeta, its fields under their JSON names
ZeroBase ==
    [type |-> "", title |-> "", summary |-> "", uploader |-> "",
     upload_time |-> 0, size |-> 0]

\* Size storing every argument
SizeAlways(m, sz) == [m |-> [m EXCEPT !.size = sz], value |-> sz]

TypeOp(m, t) ==
    LET m1 == IF t # "" THEN [m EXCEPT !.type = t] ELSE m
    IN [m |-> m1, value |-> m1.type]

TitleOp(m, t) ==
    LET m1 == IF t # "" THEN [m EXCEPT !.title = t] ELSE m
    IN [m |-> m1, value |-> m1.title]

SummaryOp(m, s) ==
    LET m1 == IF s # "" THEN [m EXCEPT !.summary = s] ELSE m
    IN [m |-> m1, value |-> m1.summary]

UploaderOp(m, u) ==
    LET m1 == IF u # "" THEN [m EXCEPT !.uploader = u] ELSE m
    IN [m |-> m1, value |-> m1.uploader]

UploadTimeOp(m, t) ==
    LET m1 == IF t > 0 THEN [m EXCEPT !.upload_time = t] ELSE m
    IN [m |-> m1, value |-> m1.upload_time]

SizeOp(m, sz) ==
    LET m1 == IF sz > 0 THEN [m EXCEPT !.size = sz] ELSE m
    IN [m |-> m1, value |-> m1.size]

\* arguments of the accessors
MetaStrings == {"", "a", "b"}
MetaInts    == {-1, 0, 1, 2}

\* ret.meta is the BaseMeta object, the other fields are the last call
InitMeta ==
    /\ rootDir = <<Dot>>
    /\ files = EmptyMap
    /\ dirs = {<<>>}
    /\ cache = EmptyMap
    /\ lookbackYears = 0
    /\ existbackYears = 0
    /\ now = Itoa(BaseYear)
    /\ ret = [op |-> "&BaseMeta{}", field |-> "", meta |-> ZeroBase]
    /\ nops = 0
    /\ inflight = NoCalls
    /\ drivers = NoDrivers
    /\ subs = NoSubs

MetaFrame ==
    UNCHANGED <<subs, drivers, inflight, rootDir, files, dirs, cache, lookbackYears,
                existbackYears, now, nops>>

\* the calls m.Type(t), ..., m.Size(sz): field names the field the call is about
Type(t) ==
    /\ \E r \in {TypeOp(ret.meta, t)} :
           ret' = [op |-> "Type", field |-> "type", arg |-> t, value |-> r.value,
                   meta |-> r.m]
    /\ MetaFrame

Title(t) ==
    /\ \E r \in {TitleOp(ret.meta, t)} :
           ret' = [op |-> "Title", field |-> "title", arg |-> t, value |-> r.value,
                   meta |-> r.m]
    /\ MetaFrame

Summary(s) ==
    /\ \E r \in {SummaryOp(ret.meta, s)} :
           ret' = [op |-> "Summary", field |-> "summary", arg |-> s, value |-> r.value,
                   meta |-> r.m]
    /\ MetaFrame

Uploader(u) ==
    /\ \E r \in {UploaderOp(ret.meta, u)} :
           ret' = [op |-> "Uploader", field |-> "uploader", arg |-> u, value |-> r.value,
                   meta |-> r.m]
    /\ MetaFrame

UploadTime(t) ==
    /\ \E r \in {UploadTimeOp(ret.meta, t)} :
           ret' = [op |-> "UploadTime", field |-> "upload_time", arg |-> t, value |-> r.value,
                   meta |-> r.m]
    /\ MetaFrame

Size(sz) ==
    /\ \E r \in {SizeOp(ret.meta, sz)} :
           ret' = [op |-> "Size", field |-> "size", arg |-> sz, value |-> r.value,
                   meta |-> r.m]
    /\ MetaFrame

NextMeta ==
    \/ \E t \in MetaStrings : Type(t)
    \/ \E t \in MetaStrings : Title(t)
    \/ \E s \in MetaStrings : Summary(s)
    \/ \E u \in MetaStrings : Uploader(u)
    \/ \E t \in MetaInts : UploadTime(t)
    \/ \E sz \in MetaInts : Size(sz)

SpecMeta == InitMeta /\ [][NextMeta]_vars

\* the argument asks for the field to be set: a non-empty string, a number
\* above zero
Sets(op, arg) == IF op \in {"UploadTime", "Size"} THEN arg > 0 ELSE arg # ""

\* C30: Type, Title, Summary and Uploader called with a non-empty string set
\* their field and return the new value, called with the empty string they
\* change nothing and return the current value; UploadTime and Size set only
\* for an argument above zero; no call changes another field.
C30_Accessors ==
    [][/\ ret'.meta[ret'.field] =
              (IF Sets(ret'.op, ret'.arg) THEN ret'.arg ELSE ret.meta[ret'.field])
       /\ ret'.value = ret'.meta[ret'.field]
       /\ \A f \in DOMAIN ZeroBase \ {ret'.field} : ret'.meta[f] = ret.meta[f]]_vars

\* C30 happens: Size was called with zero on an object whose size and title
\* were set, and returned the size.
C30_Witness ==
    /\ ret.op = "Size"
    /\ ret.arg = 0
    /\ ret.value = 2
    /\ ret.meta.size = 2
    /\ ret.meta.title = "b"

----------------------------------------------------------------------------
(* The upload handler of the HTTP layer (package api): one request, the    *)
(* status it is answered with, and what Store did.                         *)

StatusOK                    == 200
StatusBadRequest            == 400
StatusMethodNotAllowed      == 405
StatusRequestEntityTooLarge == 413
StatusInternalServerError   == 500

\* Config.MaxFileSize of the handler
MaxFileSize == 3

\* request bodies: two documents and one above the size limit
P3 == <<"t", "o", "o", "b", "i", "g">>
Bodies == {P1, P2, P3}

\* utils.HashSHA3: the digest in lower-case hex, a different one per body
idP2 == <<"0", "1", "2", "3", "4", "5">>
idP3 == <<"6", "7", "8", "9", "a", "b">>
HashSHA3(body) ==
    CASE body = P1 -> idL
      [] body = P2 -> idP2
      [] OTHER -> idP3

\* time.Now().Unix() at the start of the year the clock shows
Unix(nowY) == (Atoi(nowY).val - 1970) * 31536000

\* the metadata the handler builds: NewDocumentMeta(&BaseMeta{}), then the
\* six accessors
uploadMeta(req, nowY) ==
    LET ct == IF req.contentType = "" THEN "application/octet-stream" ELSE req.contentType
        m1 == TypeOp(ZeroMeta, ct).m
        m2 == TitleOp(m1, req.title).m
        m3 == SummaryOp(m2, "").m
        m4 == UploaderOp(m3, "").m
        m5 == UploadTimeOp(m4, Unix(nowY)).m
    IN SizeOp(m5, Len(req.body)).m

\* DocumentHandler.UploadHandler: the status of the answer, the error Store
\* returned when it was called, and the store afterwards
UploadHandlerOp(root, d, c, nowY, req) ==
    LET quit(status) == [disk |-> d, cache |-> c, status |-> status, called |-> FALSE,
                         err |-> NoErr, docID |-> <<>>, year |-> <<>>]
        docID == HashSHA3(req.body)
        s == StoreOp(root, d, c, nowY, <<>>, docID, req.body, uploadMeta(req, nowY))
    IN IF req.method # "POST" THEN quit(StatusMethodNotAllowed)
       ELSE IF req.contentLength > MaxFileSize THEN quit(StatusRequestEntityTooLarge)
       ELSE IF req.readFails THEN quit(StatusBadRequest)
       ELSE IF s.err # NoErr
       THEN [disk |-> s.disk, cache |-> s.cache, status |-> StatusInternalServerError,
             called |-> TRUE, err |-> s.err, docID |-> docID, year |-> <<>>]
       ELSE [disk |-> s.disk, cache |-> s.cache, status |-> StatusOK,
             called |-> TRUE, err |-> NoErr, docID |-> docID, year |-> s.year]

\* the requests: a body that arrives whole or breaks off, its length as the
\* Content-Length
Requests ==
    {[method |-> mt, body |-> b, contentLength |-> Len(b), readFails |-> rf,
      contentType |-> ct, title |-> ti] :
        mt \in {"POST", "GET"}, b \in Bodies, rf \in BOOLEAN,
        ct \in {"", "text/plain"}, ti \in {"", "a"}}

InitUpload ==
    /\ rootDir \in Roots
    /\ files = EmptyDisk(rootDir).files
    /\ dirs = EmptyDisk(rootDir).dirs
    /\ cache = EmptyMap
    /\ lookbackYears = 0
    /\ existbackYears = 0
    /\ now = Itoa(BaseYear)
    /\ ret = [op |-> "NewDocumentHandler"]
    /\ nops = 0
    /\ inflight = NoCalls
    /\ drivers = NoDrivers
    /\ subs = NoSubs

UploadHandler(req) ==
    /\ \E r \in {UploadHandlerOp(rootDir, disk, cache, now, req)} :
           /\ files' = r.disk.files
           /\ dirs' = r.disk.dirs
           /\ cache' = r.cache
           /\ ret' = [op |-> "UploadHandler", req |-> req, status |-> r.status,
                      called |-> r.called, err |-> r.err, docID |-> r.docID,
                      year |-> r.year]
    /\ UNCHANGED <<subs, drivers, inflight, rootDir, lookbackYears, existbackYears, now, nops>>

\* a new instance of the server on the same disk
RestartUpload ==
    /\ ret.op = "UploadHandler"
    /\ cache # EmptyMap
    /\ cache' = EmptyMap
    /\ ret' = [op |-> "NewDocumentHandler"]
    /\ UNCHANGED <<subs, drivers, inflight, rootDir, files, dirs, lookbackYears, existbackYears,
                   now, nops>>

NextUpload ==
    \/ \E req \in Requests : UploadHandler(req)
    \/ RestartUpload

SpecUpload == InitUpload /\ [][NextUpload]_vars

\* C29: an upload of a document that is already stored is answered with a
\* client-error status (4xx), not with the 5xx of an I/O failure: when Store
\* returns "document already exists" the status UploadHandler answers with
\* is in 400..499.
C29_UploadConflict ==
    (ret.op = "UploadHandler" /\ ret.called /\ ret.err = ErrExists)
    => (ret.status >= 400 /\ ret.status <= 499)

----------------------------------------------------------------------------
(* One Store call running step by step on goroutine 1 while other          *)
(* goroutines read: the reads are whole calls placed between its steps.    *)

InitReaders ==
    /\ rootDir \in Roots
    /\ files = EmptyDisk(rootDir).files
    /\ dirs = EmptyDisk(rootDir).dirs
    /\ cache = EmptyMap
    /\ lookbackYears = 0
    /\ existbackYears = 0
    /\ now = Itoa(BaseYear)
    /\ ret = [NoRet EXCEPT !.op = "NewDocumentStore", !.changed = TRUE]
    /\ nops = 0
    /\ inflight = NoCalls
    /\ drivers = NoDrivers
    /\ subs = NoSubs

NextReaders ==
    \/ \E y \in Years, id \in IDs, data \in Payloads, m \in Metas :
          StoreBegin(1, y, id, data, m)
    \/ StoreCacheLoad(1)
    \/ StoreFsExists(1)
    \/ StoreOpenData(1)
    \/ StoreWriteData(1)
    \/ StoreOpenMeta(1)
    \/ StoreWriteMeta(1)
    \/ StoreCacheStore(1)
    \/ \E y \in Years, id \in IDs, l \in Langs : Get(y, id, l)
    \/ \E y \in Years, id \in IDs, l \in Langs : GetMeta(y, id, l)
    \/ \E y \in Years, id \in IDs : Exists(y, id)

SpecReaders == InitReaders /\ [][NextReaders]_vars

\* C31: under every interleaving of a successful Store(y, id, P, m) with
\* reads from other goroutines, no reader sees the data file without the
\* default metadata: no Get returns the data together with an error for the
\* metadata.
C31_StoreAtomic ==
    ret.op = "Get" => ~(ret.rdata # <<>> /\ ret.err # NoErr)

----------------------------------------------------------------------------
(* One StoreMeta call running step by step on goroutine 2 while Store,     *)
(* Delete and DeleteMeta calls of other goroutines are placed between its  *)
(* steps.                                                                  *)

\* the file StoreMeta writes for the call: the variant of the normalised tag,
\* or the default metadata file
LangMetaPathOf(c) ==
    IF normalizeLang(c.lang) # <<>>
    THEN WithLang(MetaPathOf(c), normalizeLang(c.lang))
    ELSE MetaPathOf(c)

\* the call is made and the year resolved
StoreMetaBegin(g, year, docID, meta, lang) ==
    /\ g \notin DOMAIN inflight
    /\ Step(g, [pc |-> "fsExists", year |-> IF year = <<>> THEN now ELSE year,
                id |-> docID, meta |-> meta, lang |-> lang,
                ryear |-> <<>>, err |-> NoErr])
    /\ UNCHANGED <<files, dirs, cache>>
    /\ RaceFrame

\* ds.fs.Exists(paths.DataPath)
StoreMetaFsExists(g) ==
    /\ Running(g, "fsExists")
    /\ "lang" \in DOMAIN inflight[g]
    /\ Step(g, IF fsExists(rootDir, disk, DataPathOf(inflight[g]))
               THEN [inflight[g] EXCEPT !.pc = "openLang"]
               ELSE [inflight[g] EXCEPT !.pc = "done", !.err = ErrNotFound])
    /\ UNCHANGED <<files, dirs, cache>>
    /\ RaceFrame

\* ds.fs.Write(langMetaPath, metaBytes) up to the open
StoreMetaOpen(g) ==
    /\ Running(g, "openLang")
    /\ OpenTrunc(g, LangMetaPathOf(inflight[g]), "writeLang")

\* ds.fs.Write(langMetaPath, metaBytes) from the write on; return year, nil
StoreMetaWrite(g) ==
    /\ Running(g, "writeLang")
    /\ WriteOpened(g, LangMetaPathOf(inflight[g]), Marshal(inflight[g].meta), "done")

InitOrphan == InitReaders

NextOrphan ==
    \/ \E y \in Years, id \in IDs, m \in Metas, l \in Langs :
          StoreMetaBegin(2, y, id, m, l)
    \/ StoreMetaFsExists(2)
    \/ StoreMetaOpen(2)
    \/ StoreMetaWrite(2)
    \/ \E y \in Years, id \in IDs, data \in Payloads, m \in Metas :
          Store(y, id, data, m)
    \/ \E y \in Years, id \in IDs : Delete(y, id)
    \/ \E y \in Years, id \in IDs, l \in Langs : DeleteMeta(y, id, l)

SpecOrphan == InitOrphan /\ [][NextOrphan]_vars

\* A metadata file of the document, default or language variant, is on disk
\* under the year.
MetaFileAt(year, docID) ==
    \E f \in DOMAIN files :
        /\ Dir(f) = filePath(rootDir, calculatePaths(year, docID).DirPath)
        /\ StrIndex(f[Len(f)], MetaExt) > 0

\* C32: in every state reachable by an interleaving of Store, StoreMeta,
\* DeleteMeta and Delete, a metadata file of (year, id) is on disk only if the
\* data file of (year, id) is; after a StoreMeta and a concurrent Delete of the
\* same document have both returned no language variant is left behind.
C32_NoOrphan ==
    (/\ 2 \in DOMAIN inflight
     /\ inflight[2].pc = "done"
     /\ ret.op = "Delete"
     /\ ret.err = NoErr
     /\ ret.year = inflight[2].year
     /\ ret.id = inflight[2].id)
    => (MetaFileAt(ret.year, ret.id) => DataAt(ret.year, ret.id))

----------------------------------------------------------------------------
(* Delete.                                                                 *)

\* the leaf directory of the document under the year
LeafDir(year, docID) == filePath(rootDir, calculatePaths(year, docID).DirPath)

\* C33: Delete(year, id) removes the data file, then every metadata variant,
\* then the leaf directory, and on success none of them remains; when the data
\* file is absent it fails with not-found before removing anything; it touches
\* the given year only.
C33_Delete ==
    [][ret'.op = "Delete" =>
        LET y == ret'.year
            id == ret'.id
        IN /\ ~DataAt(y, id) => (ret'.err = ErrNotFound /\ UNCHANGED <<files, dirs>>)
           /\ DataAt(y, id) => ret'.err = NoErr
           /\ ret'.err = NoErr =>
                 /\ \A f \in DOMAIN files' : Dir(f) # LeafDir(y, id)
                 /\ LeafDir(y, id) \notin dirs'
           /\ \A f \in DOMAIN files :
                 Dir(f) # LeafDir(y, id) => (f \in DOMAIN files' /\ files'[f] = files[f])
       ]_vars

----------------------------------------------------------------------------
(* The order of the year walk: a configured store over a root where        *)
(* earlier instances left the document under any of the years a walk can   *)
(* reach.                                                                  *)

\* the disk after instances with empty caches stored the document under each
\* of the years
RECURSIVE StoredUnder(_, _)
StoredUnder(root, ys) ==
    IF ys = {} THEN EmptyDisk(root)
    ELSE LET y == CHOOSE z \in ys : TRUE
         IN StoreOp(root, StoredUnder(root, ys \ {y}), EmptyMap, Itoa(BaseYear),
                    y, idL, P1, MetaA).disk

InitOrder ==
    /\ rootDir \in Roots
    /\ \E ys \in SUBSET {Itoa(BaseYear - k) : k \in 0..MaxDepth} :
          /\ files = StoredUnder(rootDir, ys).files
          /\ dirs = StoredUnder(rootDir, ys).dirs
    /\ cache = EmptyMap
    /\ \E n \in 0..MaxDepth : lookbackYears = acceptYears(0, n)
    /\ \E n \in 0..MaxDepth : existbackYears = acceptYears(0, n)
    /\ now = Itoa(BaseYear)
    /\ ret = [NoRet EXCEPT !.op = "NewDocumentStore", !.changed = TRUE]
    /\ nops = 0
    /\ inflight = NoCalls
    /\ drivers = NoDrivers
    /\ subs = NoSubs

NextOrder ==
    \/ \E y \in YearArgs : Store(y, idL, P1, MetaA)
    \/ \E y \in YearArgs : ExistsFromYear(y, idL)
    \/ \E y \in YearArgs : GetFromYear(y, idL, <<>>)
    \/ \E y \in YearArgs : GetMetaFromYear(y, idL, <<>>)

SpecOrder == InitOrder /\ [][NextOrder]_vars

\* the call found the document
WalkSucceeded == IF ret.op = "ExistsFromYear" THEN ret.found ELSE ret.err = NoErr

\* the year reported is the most recent of the WalkDepth years ending at the
\* start year under which the data file of the id is on disk
MostRecentInRange ==
    \E n \in 0..(WalkDepth - 1) :
        /\ ret.ryear = YearBack(ret.year, n)
        /\ DataAt(ret.ryear, ToLower(ret.id))
        /\ \A m \in 0..(n - 1) : ~DataAt(YearBack(ret.year, m), ToLower(ret.id))

\* what the call returned was read from the files under the year reported
ReadFromReportedYear ==
    /\ ret.op = "GetFromYear" =>
          ret.rdata = files[filePath(rootDir,
                         calculatePaths(ret.ryear, ToLower(ret.id)).DataPath)]
    /\ (ret.op = "GetMetaFromYear" /\ ret.lang = <<>>) =>
          ReturnsMetaOf(MetaFile(ret.ryear, ToLower(ret.id), <<>>))

----------------------------------------------------------------------------
(* Dir of one parsed template called from two goroutines.  The template    *)
(* keeps its handlers and the slice tmp; Dir writes tmp[i] for each handler *)
(* and then joins tmp, so the calls share tmp.                             *)

\* the templates parsed at start and the arguments of the calls
RaceDocTemplate == <<"Y", "/", "M">>
RaceResTemplate == <<"1", "/", "2">>
RaceTimes == {[Y |-> 2024, M |-> 3, D |-> 1, h |-> 0, m |-> 5, s |-> 59],
              [Y |-> 2025, M |-> 12, D |-> 31, h |-> 23, m |-> 0, s |-> 7]}
RaceHashes == {idL, idP2}

\* the i-th handler of the template applied to the argument of the call
ApplyDirer(i, arg) ==
    IF subs.kind = "doc" THEN docDirHandlers(subs.fns[i][1], arg)
    ELSE getResDirer(Atoi(subs.fns[i]).val, arg).seg

\* the path the call gets when no other call runs
DirAlone(arg) ==
    IF subs.kind = "doc" THEN docSubsDir([i \in 1..Len(subs.fns) |-> subs.fns[i][1]], arg)
    ELSE resSubsDir([i \in 1..Len(subs.fns) |-> Atoi(subs.fns[i]).val], arg).path

\* ds.Parse(cfg) or rs.Parse(cfg): the handlers, and tmp set to the tokens
InitDir ==
    /\ rootDir = <<Dot>>
    /\ files = EmptyMap
    /\ dirs = {<<>>}
    /\ cache = EmptyMap
    /\ lookbackYears = 0
    /\ existbackYears = 0
    /\ now = Itoa(BaseYear)
    /\ ret = NoRet
    /\ nops = 0
    /\ inflight = NoCalls
    /\ drivers = NoDrivers
    /\ \/ /\ docSubsParse(RaceDocTemplate).err = NoErr
          /\ subs = [kind |-> "doc", fns |-> Split(RaceDocTemplate, "/"),
                     tmp |-> Split(RaceDocTemplate, "/")]
       \/ /\ resSubsParse(RaceResTemplate).err = NoErr
          /\ subs = [kind |-> "res", fns |-> Split(RaceResTemplate, "/"),
                     tmp |-> Split(RaceResTemplate, "/")]

DirFrame ==
    UNCHANGED <<rootDir, files, dirs, cache, lookbackYears, existbackYears, now, ret,
                nops, drivers>>

\* ds.Dir(tm) is called
DocDirBegin(g, tm) ==
    /\ subs.kind = "doc"
    /\ g \notin DOMAIN inflight
    /\ Step(g, [pc |-> "set", arg |-> tm, i |-> 1, out |-> <<>>, path |-> <<>>])
    /\ UNCHANGED subs
    /\ DirFrame

\* rs.Dir(hash) is called
ResDirBegin(g, hash) ==
    /\ subs.kind = "res"
    /\ g \notin DOMAIN inflight
    /\ Step(g, [pc |-> "set", arg |-> hash, i |-> 1, out |-> <<>>, path |-> <<>>])
    /\ UNCHANGED subs
    /\ DirFrame

\* one round of the loop: tmp[i] = fn(arg)
DirSet(g) ==
    /\ Running(g, "set")
    /\ subs' = [subs EXCEPT !.tmp[inflight[g].i] = ApplyDirer(inflight[g].i, inflight[g].arg)]
    /\ Step(g, IF inflight[g].i = Len(subs.fns)
               THEN [inflight[g] EXCEPT !.pc = "join", !.i = 1]
               ELSE [inflight[g] EXCEPT !.i = @ + 1])
    /\ DirFrame

\* filepath.Join(tmp...) reads one element of tmp; after the last one the
\* joined path is returned
DirJoin(g) ==
    /\ Running(g, "join")
    /\ LET out == Append(inflight[g].out, subs.tmp[inflight[g].i])
       IN Step(g, IF inflight[g].i = Len(subs.tmp)
                  THEN [inflight[g] EXCEPT !.pc = "returned", !.out = out,
                                           !.path = Clean(out)]
                  ELSE [inflight[g] EXCEPT !.i = @ + 1, !.out = out])
    /\ UNCHANGED subs
    /\ DirFrame

\* the caller takes the path; the goroutine is free for another call
DirReturn(g) ==
    /\ Running(g, "returned")
    /\ inflight' = [h \in (DOMAIN inflight) \ {g} |-> inflight[h]]
    /\ UNCHANGED subs
    /\ DirFrame

NextDir ==
    \E g \in Goroutines :
        \/ \E tm \in RaceTimes : DocDirBegin(g, tm)
        \/ \E hash \in RaceHashes : ResDirBegin(g, hash)
        \/ DirSet(g)
        \/ DirJoin(g)
        \/ DirReturn(g)

SpecDir == InitDir /\ [][NextDir]_vars

\* C35: two goroutines calling Dir on the same parsed template with different
\* inputs each get the path they would get alone; no segment comes from the
\* other call's input.
C35_DirIsolated ==
    \A g \in DOMAIN inflight :
        inflight[g].pc = "returned" => inflight[g].path = DirAlone(inflight[g].arg)

----------------------------------------------------------------------------
(* Language tags on write and read.                                        *)

\* the call after a successful StoreMeta with a language tag takes the same
\* year, id and tag, and gets the variant stored, or removes it
StoredTagServed ==
    (/\ ret.op = "StoreMeta" /\ ret.err = NoErr /\ ret.lang # <<>>
     /\ ret'.year = ret.ryear /\ ret'.id = ret.id /\ ret'.lang = ret.lang)
    => /\ ret'.op \in {"Get", "GetMeta", "GetFromYear", "GetMetaFromYear"}
          => (ret'.err = NoErr /\ ~ret'.rnil /\ ret'.rmeta = ret.meta)
       /\ ret'.op = "DeleteMeta"
          => /\ ret'.err = NoErr
             /\ MetaFile(ret.ryear, ret.id, normalizeLang(ret.lang)) \notin DOMAIN files'

\* C36: a variant stored with StoreMeta(y, id, m, L) is returned, for the same
\* tag L in any form the routes accept, by Get, GetMeta, GetFromYear and
\* GetMetaFromYear, and is removed by DeleteMeta(y, id, L).
C36_SameTag == [][StoredTagServed]_vars

----------------------------------------------------------------------------
(* The metadata upload route (routes.go) and its handler.  The requests    *)
(* are those whose path the template /api/meta/{id}/{lang} of the route    *)
(* matches; the router then compares the method with the one the route was *)
(* registered for.                                                         *)

\* Config.MaxMetaSize, in tokens of the encoded metadata
MaxMetaSize == 64

\* DocumentHandler.UploadMetaHandler
UploadMetaHandlerOp(root, d, nowY, req) ==
    LET quit(status) == [disk |-> d, status |-> status, called |-> FALSE,
                         err |-> NoErr, year |-> <<>>]
        meta == Unmarshal(req.body)
        s == StoreMetaOp(root, d, nowY, <<>>, req.id, meta.meta, req.lang)
    IN IF req.method # "PUT" THEN quit(StatusMethodNotAllowed)
       ELSE IF req.contentLength > MaxMetaSize THEN quit(StatusRequestEntityTooLarge)
       ELSE IF req.id = <<>> THEN quit(StatusBadRequest)
       ELSE IF req.readFails THEN quit(StatusBadRequest)
       ELSE IF ~meta.ok THEN quit(StatusBadRequest)
       ELSE IF s.err # NoErr
       THEN [disk |-> s.disk, status |-> StatusInternalServerError, called |-> TRUE,
             err |-> s.err, year |-> <<>>]
       ELSE [disk |-> s.disk, status |-> StatusOK, called |-> TRUE, err |-> NoErr,
             year |-> s.year]

\* the route of Router for the metadata upload: registered with
\* Methods(http.MethodPost); a request of another method is answered by the
\* router and the handler is not called
RouteUploadMeta(root, d, nowY, req) ==
    IF req.method # "POST"
    THEN [disk |-> d, status |-> StatusMethodNotAllowed, called |-> FALSE,
          err |-> NoErr, year |-> <<>>, dispatched |-> FALSE]
    ELSE LET r == UploadMetaHandlerOp(root, d, nowY, req)
         IN [disk |-> r.disk, status |-> r.status, called |-> r.called,
             err |-> r.err, year |-> r.year, dispatched |-> TRUE]

MetaRequests ==
    {[method |-> mt, id |-> id, lang |-> l, body |-> b, contentLength |-> Len(b),
      readFails |-> rf] :
        mt \in {"POST", "PUT", "GET"}, id \in IDs, l \in Langs,
        b \in {Marshal(MetaA), Marshal(MetaB), <<"{">>}, rf \in BOOLEAN}

\* the server over a root where an earlier instance may have left a document
InitMetaUpload ==
    /\ rootDir \in Roots
    /\ \E d \in PriorDisks(rootDir) : files = d.files /\ dirs = d.dirs
    /\ cache = EmptyMap
    /\ lookbackYears = 0
    /\ existbackYears = 0
    /\ now = Itoa(BaseYear)
    /\ ret = [op |-> "NewDocumentHandler"]
    /\ nops = 0
    /\ inflight = NoCalls
    /\ drivers = NoDrivers
    /\ subs = NoSubs

\* a request on /api/meta/{id}/{lang} is served
ServeUploadMeta(req) ==
    /\ \E r \in {RouteUploadMeta(rootDir, disk, now, req)} :
           /\ files' = r.disk.files
           /\ dirs' = r.disk.dirs
           /\ ret' = [op |-> "UploadMetaHandler", req |-> req, status |-> r.status,
                      dispatched |-> r.dispatched, called |-> r.called,
                      err |-> r.err, year |-> r.year]
    /\ UNCHANGED <<subs, drivers, inflight, rootDir, cache, lookbackYears, existbackYears,
                   now, nops>>

NextMetaUpload == \E req \in MetaRequests : ServeUploadMeta(req)

SpecMetaUpload == InitMetaUpload /\ [][NextMetaUpload]_vars

\* C37: a metadata upload request that the router dispatches to
\* UploadMetaHandler passes the handler's own method check; when nothing else
\* is wrong with it, it reaches StoreMeta.
C37_DispatchedPasses ==
    (ret.op = "UploadMetaHandler" /\ ret.dispatched)
    => /\ ret.status # StatusMethodNotAllowed
       /\ (/\ ret.req.contentLength <= MaxMetaSize
           /\ ~ret.req.readFails
           /\ Unmarshal(ret.req.body).ok) => ret.called

----------------------------------------------------------------------------
(* The cache against the disk.                                             *)

\* C38: every cache entry id -> y has the data file of id on disk under y, and
\* an id is reported as existing by Exists or ExistsFromYear, or resolved by
\* GetFromYear, only while a data file of it is on disk.
C38_CacheConsistent ==
    /\ \A id \in DOMAIN cache : DataAt(cache[id], id)
    /\ (ret.op = "Exists" /\ ret.found)
          => \E y \in AllYears : DataAt(y, ToLower(ret.id))
    /\ (ret.op = "ExistsFromYear" /\ ret.found) => DataAt(ret.ryear, ToLower(ret.id))
    /\ (ret.op = "GetFromYear" /\ ret.ryear # <<>>) => DataAt(ret.ryear, ToLower(ret.id))

\* C39: Store fails with "document already exists" only when a data file of
\* the id is on disk at the moment of the call, and a Store that follows a
\* successful Delete of the same year and id on the same instance succeeds.
C39_RealDuplicates ==
    [][ret'.op = "Store" =>
        /\ ret'.err = ErrExists => \E y \in AllYears : DataAt(y, ret'.id)
        /\ (/\ ret.op = "Delete" /\ ret.err = NoErr
            /\ ret'.year = ret.year /\ ret'.id = ret.id) => ret'.err = NoErr
       ]_vars

====
